---- MODULE Spec2Model ----
(***************************************************************************)
(* A model of the tracefile engine of info-process                         *)
(* (src/info_process/parser.py) and of the handler sets that the merge,    *)
(* waive and diff commands install on it.                                  *)
(*                                                                         *)
(* Text is a sequence of lines.  A line is [k, p, d]: k is what the        *)
(* tokenizer recognises ("comment", "tn", "eor", "blank", "entry"), p the  *)
(* text before the first ':' and d the payload, a tuple of its             *)
(* comma-separated fields: DA is <<line, hits>>, BRDA is                   *)
(* <<line, block, name, hits>>, every other prefix is a 1-tuple.           *)
(* A Python dict is a function whose DOMAIN is its key set; dicts whose    *)
(* iteration order matters (Stream.records) are sequences in insertion     *)
(* order.  An exception is a value of exc other than NoExc.                *)
(*                                                                         *)
(* An operator named X_then is the rest of X after the call whose result   *)
(* is its last parameter.                                                  *)
(***************************************************************************)
EXTENDS Integers, Sequences, FiniteSets, TLC

VARIABLES
    pc,      \* position of the command being run
    stream,  \* the Stream the command works on (for diff: `other`)
    base,    \* a second Stream (diff: the base stream; round trip: the reloaded one)
    inputs,  \* the input texts read so far, in order
    out,     \* the contents of the output file (the text written by Stream.save);
             \* for a handler run on its own, the list it returns
    exc,     \* the exception that ended the command, or NoExc
    snap,    \* the Stream as it was just before the last save or diff
    labels,  \* the test file passed with each input, in order (None for a load)
    test_list \* merge: the text written by create_test_list

vars == <<pc, stream, base, inputs, out, exc, snap, labels, test_list>>

-----------------------------------------------------------------------------
(* Values *)

None == "None"          \* Python's None where a string is expected
NoSource == <<>>        \* Record.source_file = None (payloads are tuples)
NoExc == "none"
NoRet == [none |-> TRUE, vals |-> <<>>]

EmptyMap == [k \in {} |-> {}]
Put(m, k, v) == [y \in DOMAIN m \cup {k} |-> IF y = k THEN v ELSE m[y]]
Get(m, k, default) == IF k \in DOMAIN m THEN m[k] ELSE default
Range(s) == {s[i] : i \in DOMAIN s}

\* lexicographic order on key tuples of equal length (Python's tuple comparison)
RECURSIVE KeyLess(_, _)
KeyLess(a, b) ==
    IF a = <<>> \/ b = <<>> THEN FALSE
    ELSE IF a[1] # b[1] THEN a[1] < b[1]
    ELSE KeyLess(Tail(a), Tail(b))

RECURSIVE InsertSorted(_, _)
\* e goes after every element whose key is not greater than its own
InsertSorted(sorted, e) ==
    IF sorted = <<>> THEN <<e>>
    ELSE IF KeyLess(e.key, sorted[Len(sorted)].key)
         THEN Append(InsertSorted(SubSeq(sorted, 1, Len(sorted) - 1), e), sorted[Len(sorted)])
         ELSE Append(sorted, e)

RECURSIVE SortKeyed(_)
SortKeyed(s) ==
    IF s = <<>> THEN <<>>
    ELSE InsertSorted(SortKeyed(SubSeq(s, 1, Len(s) - 1)), s[Len(s)])

\* list.sort(key=...): stable and ascending; keys[i] is the key tuple of s[i]
Unkeyed(sorted) == [i \in DOMAIN sorted |-> sorted[i].e]

StableSort(s, keys) ==
    Unkeyed(SortKeyed([i \in DOMAIN s |-> [e |-> s[i], key |-> keys[i]]]))

-----------------------------------------------------------------------------
(* parser.py: payload schemas *)

split_da(entry) ==
    [line_number |-> entry[1], hit_count |-> entry[2]]

split_brda(entry) ==
    [line_number |-> entry[1], block |-> entry[2], name |-> entry[3], hit_count |-> entry[4]]

get_line_number_and_hit_count(entry) ==
    [line_number |-> entry[1], hit_count |-> entry[Len(entry)]]

\* split_da and split_brda raise ValueError unless the payload has the two
\* (four) comma-separated fields they unpack and convert
split_da_raises(entry) == Len(entry) # 2
split_brda_raises(entry) == Len(entry) # 4

-----------------------------------------------------------------------------
(* parser.py: Record *)

Record(id, source_file_prefix) ==
    [id |-> id,
     source_file |-> NoSource,
     lines_per_prefix |-> EmptyMap,
     line_info |-> EmptyMap,
     prefix_order |-> <<>>,
     source_file_prefix |-> source_file_prefix]

LineInfo(test_file) == IF test_file = None THEN {} ELSE {test_file}

_update_stats(rec, prefix, data, test_file) ==
    IF rec.source_file = NoSource /\ prefix = rec.source_file_prefix
    THEN [rec EXCEPT !.source_file = data]
    ELSE IF prefix = "BRDA" \/ prefix = "DA"
    THEN LET lh == get_line_number_and_hit_count(data)
             per_prefix == Get(rec.line_info, prefix, EmptyMap)
             tf == IF lh.hit_count = 0 THEN None ELSE test_file
             info == IF lh.line_number \in DOMAIN per_prefix
                     THEN per_prefix[lh.line_number] \cup LineInfo(tf)
                     ELSE LineInfo(tf)
         IN [rec EXCEPT !.line_info = Put(@, prefix, Put(per_prefix, lh.line_number, info))]
    ELSE rec

_ensure_prefix(rec, prefix) ==
    IF prefix \notin DOMAIN rec.lines_per_prefix
    THEN [rec EXCEPT !.prefix_order = Append(@, prefix),
                     !.lines_per_prefix = Put(@, prefix, <<>>)]
    ELSE rec

_add_entry(rec, prefix, data) ==
    LET r1 == _ensure_prefix(rec, prefix)
        r2 == [r1 EXCEPT !.lines_per_prefix = Put(@, prefix, Append(r1.lines_per_prefix[prefix], data))]
    IN _update_stats(r2, prefix, data, None)

RECURSIVE _merge_lines(_, _, _)
\* the inner loop of Record._merge_stats for one prefix
_merge_lines(mine, theirs, todo) ==
    IF todo = {} THEN mine
    ELSE LET line == CHOOSE l \in todo : TRUE
             merged == IF line \in DOMAIN mine
                       THEN Put(mine, line, mine[line] \cup theirs[line])
                       ELSE Put(mine, line, theirs[line])
         IN _merge_lines(merged, theirs, todo \ {line})

RECURSIVE _merge_prefixes(_, _, _)
_merge_prefixes(mine, theirs, todo) ==
    IF todo = {} THEN mine
    ELSE LET prefix == CHOOSE p \in todo : TRUE
             merged == IF prefix \notin DOMAIN mine
                       THEN Put(mine, prefix, theirs[prefix])
                       ELSE Put(mine, prefix,
                                _merge_lines(mine[prefix], theirs[prefix], DOMAIN theirs[prefix]))
         IN _merge_prefixes(merged, theirs, todo \ {prefix})

_merge_stats(rec, other) ==
    [rec EXCEPT !.line_info = _merge_prefixes(@, other.line_info, DOMAIN other.line_info)]

-----------------------------------------------------------------------------
(* Entry handlers.  A handler is named by [h, arg]; it is called with the  *)
(* context ctx = [rec, cache_da, cache_brda, exc] (the Record it may       *)
(* change and the state its closure keeps) and returns [ctx, ret], ret     *)
(* being NoRet for Python's None or [none |-> FALSE, vals |-> payloads].   *)

Ret(vals) == [none |-> FALSE, vals |-> vals]
Raise(ctx, e) == [ctx |-> [ctx EXCEPT !.exc = e], ret |-> NoRet]

\* merge.py create_merge_da_handler, line 26: the new hit count; the first
\* definition is the faulty variant that drops the incoming count
merge_da_sum_own_only(own_hit_count, hit_count) == hit_count
merge_da_sum(own_hit_count, hit_count) == own_hit_count + hit_count

merge_da_handler(prefix, params, ctx) ==
    LET own == split_da(params)
        cache_key == <<ctx.rec.id, own.line_number>>
        lines == Get(ctx.rec.lines_per_prefix, prefix, <<>>)
    IN IF cache_key \notin DOMAIN ctx.cache_da
       THEN [ctx |-> [ctx EXCEPT !.cache_da = Put(@, cache_key, Len(lines))],
             ret |-> Ret(<<params>>)]
       ELSE LET entry_number == ctx.cache_da[cache_key]
            IN IF entry_number >= Len(lines) THEN Raise(ctx, "IndexError")
               ELSE LET cur == split_da(lines[entry_number + 1])
                    IN IF cur.line_number # own.line_number
                       THEN Raise(ctx, "AssertionError")
                       ELSE [ctx |-> [ctx EXCEPT !.rec.lines_per_prefix[prefix][entry_number + 1] =
                                         <<own.line_number, merge_da_sum(own.hit_count, cur.hit_count)>>],
                             ret |-> NoRet]

\* merge.py create_merge_brda_handler, line 47: the new block id; the first
\* definition is the faulty variant that keeps the incoming block id
merge_brda_block_last(block, own_block) == own_block
merge_brda_block(block, own_block) == IF block >= own_block THEN block ELSE own_block

\* merge.py create_merge_brda_handler, line 47: the new hit count; the first
\* definition is the faulty variant that keeps only the incoming count
merge_brda_sum_incoming(own_hit_count, hit_count) == own_hit_count
merge_brda_sum(own_hit_count, hit_count) == own_hit_count + hit_count

merge_brda_handler(prefix, params, ctx) ==
    LET own == split_brda(params)
        cache_key == <<ctx.rec.id, own.line_number, own.name>>
        lines == Get(ctx.rec.lines_per_prefix, prefix, <<>>)
    IN IF cache_key \notin DOMAIN ctx.cache_brda
       THEN [ctx |-> [ctx EXCEPT !.cache_brda = Put(@, cache_key, Len(lines))],
             ret |-> Ret(<<params>>)]
       ELSE LET entry_number == ctx.cache_brda[cache_key]
            IN IF entry_number >= Len(lines) THEN Raise(ctx, "IndexError")
               ELSE LET cur == split_brda(lines[entry_number + 1])
                    IN IF cur.line_number # own.line_number \/ cur.name # own.name
                       THEN Raise(ctx, "AssertionError")
                       ELSE [ctx |-> [ctx EXCEPT !.rec.lines_per_prefix[prefix][entry_number + 1] =
                                         <<own.line_number,
                                           merge_brda_block(cur.block, own.block),
                                           own.name,
                                           merge_brda_sum(own.hit_count, cur.hit_count)>>],
                             ret |-> NoRet]

\* Entry handlers of a client of the library (parser.py EntryHandler): one
\* that returns a list, the entry and a copy of it for the next line, and
\* one that returns None for the entries of line 2 and the entry otherwise
copy_to_next_line(prefix, params, ctx) ==
    [ctx |-> ctx, ret |-> Ret(<<params, [params EXCEPT ![1] = @ + 1]>>)]

skip_line_two(prefix, params, ctx) ==
    [ctx |-> ctx, ret |-> IF params[1] = 2 THEN NoRet ELSE Ret(<<params>>)]

\* One-character strings stand for characters; a string is indexed with SubSeq.
Char(s, i) == SubSeq(s, i, i)

\* regex.search(path) for a pattern without metacharacters: the pattern
\* occurs somewhere in the path
regex_search(pattern, path) ==
    \E i \in 1..(Len(path) - Len(pattern) + 1) : SubSeq(path, i, i + Len(pattern) - 1) = pattern

\* transform.py create_filter_handler(pattern, negate): the handler it returns
create_filter_handler(pattern, negate, prefix, path, ctx) ==
    IF negate # regex_search(pattern, path[1])
    THEN [ctx |-> ctx, ret |-> Ret(<<path>>)]
    ELSE Raise(ctx, "RemoveRecord")

\* regex.match(path) for a pattern without metacharacters: m.end() when the
\* path starts with the pattern, -1 for no match
regex_match_end(pattern, path) ==
    IF Len(pattern) <= Len(path) /\ SubSeq(path, 1, Len(pattern)) = pattern
    THEN Len(pattern) ELSE -1

\* transform.py create_path_strip_handler(pattern): the handler it returns
create_path_strip_handler(pattern, prefix, path, ctx) ==
    [ctx |-> ctx,
     ret |-> IF regex_match_end(pattern, path[1]) >= 0
             THEN Ret(<<<<SubSeq(path[1], regex_match_end(pattern, path[1]) + 1, Len(path[1]))>>>>)
             ELSE Ret(<<path>>)]

RECURSIVE str_split(_, _, _, _, _)
\* path.split(sep) for a one-character separator, from character i on
str_split(path, sep, i, current, components) ==
    IF i > Len(path) THEN Append(components, current)
    ELSE IF Char(path, i) = sep
    THEN str_split(path, sep, i + 1, "", Append(components, current))
    ELSE str_split(path, sep, i + 1, current \o Char(path, i), components)

RECURSIVE str_join(_, _, _)
\* sep.join(components[i..])
str_join(sep, components, i) ==
    IF i > Len(components) THEN ""
    ELSE IF i = Len(components) THEN components[i]
    ELSE components[i] \o sep \o str_join(sep, components, i + 1)

RECURSIVE normalized_components(_, _, _)
\* the loop of normalize_path over components[i..]
normalized_components(components, i, normalized) ==
    IF i > Len(components) THEN normalized
    ELSE IF components[i] = ".." /\ Len(normalized) > 0
    THEN normalized_components(components, i + 1, SubSeq(normalized, 1, Len(normalized) - 1))
    ELSE IF components[i] \notin {"", ".", ".."}
    THEN normalized_components(components, i + 1, Append(normalized, components[i]))
    ELSE normalized_components(components, i + 1, normalized)

\* transform.py normalize_path
normalize_path(path) ==
    (IF Len(path) > 0 /\ Char(path, 1) = "/" THEN "/" ELSE "")
        \o str_join("/", normalized_components(str_split(path, "/", 1, "", <<>>), 1, <<>>), 1)

normalize_path_handler(prefix, path, ctx) ==
    [ctx |-> ctx, ret |-> Ret(<<<<normalize_path(path[1])>>>>)]

\* transform.py normalize_hit_count_handler (`{hit_count > 0:d}` is 1 or 0)
normalize_hit_count_handler(prefix, params, ctx) ==
    IF prefix = "DA"
    THEN IF split_da_raises(params) THEN Raise(ctx, "ValueError")
         ELSE [ctx |-> ctx,
               ret |-> Ret(<<<<split_da(params).line_number,
                               IF split_da(params).hit_count > 0 THEN 1 ELSE 0>>>>)]
    ELSE IF prefix = "BRDA"
    THEN IF split_brda_raises(params) THEN Raise(ctx, "ValueError")
         ELSE [ctx |-> ctx,
               ret |-> Ret(<<<<split_brda(params).line_number, split_brda(params).block,
                               split_brda(params).name,
                               IF split_brda(params).hit_count > 0 THEN 1 ELSE 0>>>>)]
    ELSE Raise(ctx, "Exception")

\* Record.has_entry_for_line
has_entry_for_line(rec, prefix, line) ==
    IF prefix \notin DOMAIN rec.line_info THEN FALSE
    ELSE line \in DOMAIN rec.line_info[prefix]

RECURSIVE add(_, _, _, _)

\* after file.add in missing_brda_handler: an exception of the nested call
\* leaves the handler, otherwise params is returned
missing_brda_handler_then(params, ctx) ==
    IF ctx.exc # NoExc THEN [ctx |-> ctx, ret |-> NoRet]
    ELSE [ctx |-> ctx, ret |-> Ret(<<params>>)]

\* transform.py missing_brda_handler; the first definition is the faulty
\* variant that adds the BRDA entry without asking has_entry_for_line
missing_brda_handler_always(prefix, params, ctx) ==
    IF split_da_raises(params) THEN Raise(ctx, "ValueError")
    ELSE missing_brda_handler_then(params,
             add(ctx, ctx.handlers, "BRDA",
                 <<split_da(params).line_number, 0, "toggle", split_da(params).hit_count>>))

missing_brda_handler(prefix, params, ctx) ==
    IF split_da_raises(params) THEN Raise(ctx, "ValueError")
    ELSE IF ~has_entry_for_line(ctx.rec, "BRDA", split_da(params).line_number)
    THEN missing_brda_handler_then(params,
             add(ctx, ctx.handlers, "BRDA",
                 <<split_da(params).line_number, 0, "toggle", split_da(params).hit_count>>))
    ELSE [ctx |-> ctx, ret |-> Ret(<<params>>)]

EntryHandler(handler, prefix, data, ctx) ==
    CASE handler.h = "merge_da" -> merge_da_handler(prefix, data, ctx)
      [] handler.h = "path_strip" -> create_path_strip_handler(handler.arg, prefix, data, ctx)
      [] handler.h = "normalize_path" -> normalize_path_handler(prefix, data, ctx)
      [] handler.h = "normalize_hit_count" -> normalize_hit_count_handler(prefix, data, ctx)
      [] handler.h = "missing_brda" -> missing_brda_handler(prefix, data, ctx)
      [] handler.h = "merge_brda" -> merge_brda_handler(prefix, data, ctx)
      [] handler.h = "copy_to_next_line" -> copy_to_next_line(prefix, data, ctx)
      [] handler.h = "skip_line_two" -> skip_line_two(prefix, data, ctx)
      [] handler.h = "filter" -> create_filter_handler(handler.arg, FALSE, prefix, data, ctx)
      [] handler.h = "filter_out" -> create_filter_handler(handler.arg, TRUE, prefix, data, ctx)

-----------------------------------------------------------------------------
(* parser.py: Record.add and Record._run_handlers *)

RECURSIVE RunHandlerOnEach(_, _, _, _, _, _)
RECURSIVE RunHandlerOnEach_then(_, _, _, _, _, _)
\* the inner loop of _run_handlers: handler on result[i..], collecting into transformed
RunHandlerOnEach(handler, prefix, result, i, transformed, ctx) ==
    IF i > Len(result) THEN [ctx |-> ctx, ret |-> Ret(transformed)]
    ELSE RunHandlerOnEach_then(handler, prefix, result, i, transformed,
                               EntryHandler(handler, prefix, result[i], ctx))

RunHandlerOnEach_then(handler, prefix, result, i, transformed, r) ==
    IF r.ctx.exc # NoExc \/ r.ret.none THEN [ctx |-> r.ctx, ret |-> NoRet]
    ELSE RunHandlerOnEach(handler, prefix, result, i + 1, transformed \o r.ret.vals, r.ctx)

RECURSIVE RunHandlersFrom(_, _, _, _, _)
RECURSIVE RunHandlersFrom_then(_, _, _, _)
RunHandlersFrom(ctx, handlers, k, prefix, result) ==
    IF k > Len(handlers) THEN [ctx |-> ctx, ret |-> Ret(result)]
    ELSE RunHandlersFrom_then(handlers, k, prefix,
                              RunHandlerOnEach(handlers[k], prefix, result, 1, <<>>, ctx))

RunHandlersFrom_then(handlers, k, prefix, r) ==
    IF r.ctx.exc # NoExc \/ r.ret.none THEN r
    ELSE RunHandlersFrom(r.ctx, handlers, k + 1, prefix, r.ret.vals)

_run_handlers(ctx, handlers, prefix, data) ==
    RunHandlersFrom(ctx, handlers, 1, prefix, <<data>>)

RECURSIVE AddEntries(_, _, _, _)
AddEntries(ctx, prefix, processed, i) ==
    IF i > Len(processed) THEN ctx
    ELSE AddEntries([ctx EXCEPT !.rec = _add_entry(@, prefix, processed[i])],
                    prefix, processed, i + 1)

add_then(prefix, r) ==
    IF r.ctx.exc # NoExc \/ r.ret.none THEN r.ctx
    ELSE AddEntries(r.ctx, prefix, r.ret.vals, 1)

\* Record.add, with the stream's entry-handler table
add(ctx, handlers, prefix, data) ==
    IF prefix \in DOMAIN handlers
    THEN add_then(prefix, _run_handlers(ctx, handlers[prefix], prefix, data))
    ELSE [ctx EXCEPT !.rec = _add_entry(@, prefix, data)]

RECURSIVE AddLines(_, _, _, _)
\* `for prefix, data in lines: record.add(prefix, data)`, stopping at an exception
AddLines(ctx, handlers, lines, i) ==
    IF i > Len(lines) \/ ctx.exc # NoExc THEN ctx
    ELSE AddLines(add(ctx, handlers, lines[i].p, lines[i].d), handlers, lines, i + 1)

-----------------------------------------------------------------------------
(* Category handlers.  Called with the prefix, the prefix's list, the      *)
(* Record and the Stream (for the waivers its closure holds); the result   *)
(* is [data, exc].                                                         *)

Data(data) == [data |-> data, exc |-> NoExc]
Fail(e) == [data |-> <<>>, exc |-> e]

\* merge.py sort_da
sort_da(prefix, entries, record) ==
    StableSort(entries, [i \in DOMAIN entries |-> <<split_da(entries[i]).line_number>>])

\* merge.py sort_brda; the first definition is the faulty variant that
\* leaves the block out of the key
sort_brda_by_line(prefix, entries, record) ==
    StableSort(entries, [i \in DOMAIN entries |-> <<split_brda(entries[i]).line_number>>])

sort_brda(prefix, entries, record) ==
    StableSort(entries, [i \in DOMAIN entries |->
                            <<split_brda(entries[i]).line_number, split_brda(entries[i]).block>>])

\* the characters of the names, in code point order
CodePointOrder == "-0123456789_abcdefghijklmnopqrstuvwxyz"

\* the rank of a character in code point order (ord, up to the order)
ord(c) == CHOOSE i \in 1..Len(CodePointOrder) : Char(CodePointOrder, i) = c

\* str.isdigit for a string of the characters above
isdigit(value) ==
    /\ value # ""
    /\ \A i \in 1..Len(value) : \E d \in 1..10 : Char("0123456789", d) = Char(value, i)

\* merge.py sort_brda_names, line 68
FILL_SIZE == 20

RECURSIVE zfill(_, _)
zfill(value, width) == IF Len(value) >= width THEN value ELSE zfill("0" \o value, width)

\* sort_brda_names.convert: the assertion fails
convert_asserts(value) == isdigit(value) /\ Len(value) > FILL_SIZE

\* sort_brda_names.convert when the assertion holds; the first definition is
\* the faulty variant that does not expand the numbers
convert_unpadded(value) == value

convert(value) == IF isdigit(value) THEN zfill(value, FILL_SIZE) ELSE value

RECURSIVE SplitRegex(_, _, _)
\* SPLIT_REGEX.split(name) from position i on, piece being the piece that
\* ends before i: the maximal runs of digits and the pieces between them
\* (the empty pieces Python adds at the ends are left out: they convert to "")
SplitRegex(name, i, piece) ==
    IF i > Len(name) THEN (IF piece = "" THEN <<>> ELSE <<piece>>)
    ELSE IF piece = "" \/ isdigit(piece) = isdigit(Char(name, i))
         THEN SplitRegex(name, i + 1, piece \o Char(name, i))
         ELSE <<piece>> \o SplitRegex(name, i + 1, Char(name, i))

RECURSIVE JoinConverted(_)
\* ''.join(convert(x) for x in pieces)
JoinConverted(pieces) ==
    IF pieces = <<>> THEN "" ELSE convert(Head(pieces)) \o JoinConverted(Tail(pieces))

\* sort_brda_names.key: the name part of the key
NameKey(entry) == JoinConverted(SplitRegex(split_brda(entry).name, 1, ""))

\* a string as a tuple to be compared by KeyLess: the ranks of its
\* characters, then 0 up to width, so that a proper prefix comes first
StrKey(value, width) ==
    [k \in 1..width |-> IF k <= Len(value) THEN ord(Char(value, k)) ELSE 0]

MaxLen(values) ==
    IF values = <<>> THEN 0
    ELSE CHOOSE n \in {Len(values[i]) : i \in DOMAIN values} :
            \A i \in DOMAIN values : Len(values[i]) <= n

SortByNameKeys(entries, names) ==
    StableSort(entries, [i \in DOMAIN entries |->
                            <<split_brda(entries[i]).line_number>>
                            \o StrKey(names[i], MaxLen(names))])

\* merge.py sort_brda_names
sort_brda_names(prefix, entries, record) ==
    IF \E i \in DOMAIN entries : split_brda_raises(entries[i]) THEN Fail("ValueError")
    ELSE IF \E i \in DOMAIN entries :
               \E piece \in Range(SplitRegex(split_brda(entries[i]).name, 1, "")) :
                   convert_asserts(piece)
    THEN Fail("AssertionError")
    ELSE Data(SortByNameKeys(entries, [i \in DOMAIN entries |-> NameKey(entries[i])]))

\* merge.py squash_misc, line 89: what the assertion tests
squash_misc_assertion(unique_entries) == Cardinality(unique_entries) # 0

squash_misc(prefix, entries, record) ==
    LET unique_entries == Range(entries)
    IN IF ~squash_misc_assertion(unique_entries) THEN Fail("AssertionError")
       ELSE IF entries = <<>> THEN Fail("IndexError")
       ELSE Data(<<entries[1]>>)

\* handlers.py create_count_restore(prefix): the handler it returns
create_count_restore(prefix, entries, record) ==
    LET count == IF prefix \notin DOMAIN record.lines_per_prefix THEN 0
                 ELSE Len(record.lines_per_prefix[prefix])
    IN <<(<<count>>)>>

\* handlers.py create_hit_count_restore(prefix): the handler it returns
create_hit_count_restore(prefix, entries, record) ==
    LET lines == Get(record.lines_per_prefix, prefix, <<>>)
        count == Cardinality({i \in DOMAIN lines : lines[i][Len(lines[i])] > 0})
    IN <<(<<count>>)>>

\* waive.py ExplicitWaivers.is_excluded; excluded maps a file to its list of
\* Exclude rows.  The first definition is the faulty variant that does not
\* look at the group range.
is_excluded_by_line(excluded, file, line_number, group_number) ==
    \E path \in DOMAIN excluded :
        /\ file = path
        /\ \E i \in DOMAIN excluded[path] :
              \/ (excluded[path][i].line_start = excluded[path][i].line_end
                  /\ excluded[path][i].line_end = 0)
              \/ (excluded[path][i].line_start <= line_number
                  /\ line_number <= excluded[path][i].line_end)

is_excluded(excluded, file, line_number, group_number) ==
    \E path \in DOMAIN excluded :
        /\ file = path
        /\ \E i \in DOMAIN excluded[path] :
              LET entry == excluded[path][i]
                  line_excluded ==
                      \/ (entry.line_start = entry.line_end /\ entry.line_end = 0)
                      \/ (entry.line_start <= line_number /\ line_number <= entry.line_end)
                  group_excluded ==
                      \/ group_number < 0
                      \/ (entry.group_start = entry.group_end /\ entry.group_end = 0)
                      \/ (entry.group_start <= group_number /\ group_number <= entry.group_end)
              IN line_excluded /\ group_excluded

\* waive.py create_waivers_handler: filter_waivers
filter_waivers(prefix, data, file, excluded) ==
    LET line(entry) == IF prefix = "BRDA" THEN split_brda(entry).line_number
                       ELSE split_da(entry).line_number
        group(entry) == IF prefix = "BRDA" THEN split_brda(entry).block ELSE -1
    IN SelectSeq(data, LAMBDA entry :
                    ~is_excluded(excluded, file.source_file, line(entry), group(entry)))

\* transform.py --set-block-ids-step, its default
set_block_ids_step == 1

RECURSIVE BlockIds(_, _, _, _, _, _, _)
RECURSIVE BlockIds_at(_, _, _, _, _, _)
\* create_block_ids_handler: the loop of the handler from entries[i] on
BlockIds(increment, entries, i, counter, increment_counter, current_line, result) ==
    IF i > Len(entries) THEN result
    ELSE IF current_line # split_brda(entries[i]).line_number
         THEN BlockIds_at(increment, entries, i, 0, 0, result)
         ELSE BlockIds_at(increment, entries, i, counter, increment_counter + 1, result)

\* from `if increment_counter == increment` on, increment_counter already raised
BlockIds_at(increment, entries, i, counter, increment_counter, result) ==
    IF increment_counter = increment
    THEN BlockIds(increment, entries, i + 1, counter + 1, 0, split_brda(entries[i]).line_number,
                  Append(result, [entries[i] EXCEPT ![2] = counter + 1]))
    ELSE BlockIds(increment, entries, i + 1, counter, increment_counter,
                  split_brda(entries[i]).line_number,
                  Append(result, [entries[i] EXCEPT ![2] = counter]))

\* transform.py create_block_ids_handler(increment): the handler it returns
create_block_ids_handler(increment, prefix, entries, record) ==
    IF \E i \in DOMAIN entries : split_brda_raises(entries[i]) THEN Fail("ValueError")
    ELSE Data(BlockIds(increment, entries, 1, 0, -1, -1, <<>>))

RECURSIVE TwoWayToggles(_, _)
TwoWayToggles(entries, i) ==
    IF i > Len(entries) THEN <<>>
    ELSE << [entries[i] EXCEPT ![3] = @ \o "_0->1"], [entries[i] EXCEPT ![3] = @ \o "_1->0"] >>
         \o TwoWayToggles(entries, i + 1)

\* transform.py two_way_toggle_handler
two_way_toggle_handler(prefix, entries, file) ==
    IF \E i \in DOMAIN entries : split_brda_raises(entries[i]) THEN Fail("ValueError")
    ELSE Data(TwoWayToggles(entries, 1))

\* Category handlers of a client of the library (parser.py CategoryHandler),
\* fit for any prefix: data[:2] and list(reversed(data))
keep_first_two(prefix, data, record) ==
    Data(SubSeq(data, 1, IF Len(data) < 2 THEN Len(data) ELSE 2))

newest_first(prefix, data, record) ==
    Data([i \in DOMAIN data |-> data[Len(data) + 1 - i]])

\* filter_waivers: the split_brda or split_da call raises for some entry
filter_waivers_raises(prefix, data) ==
    \E i \in DOMAIN data : IF prefix = "BRDA" THEN split_brda_raises(data[i])
                           ELSE split_da_raises(data[i])

CategoryHandler(handler, prefix, data, record, s) ==
    CASE handler.h = "sort_da" -> Data(sort_da(prefix, data, record))
      [] handler.h = "sort_brda" -> Data(sort_brda(prefix, data, record))
      [] handler.h = "sort_brda_names" -> sort_brda_names(prefix, data, record)
      [] handler.h = "squash_misc" -> squash_misc(prefix, data, record)
      [] handler.h = "count_restore" -> Data(create_count_restore(handler.arg, data, record))
      [] handler.h = "hit_count_restore" -> Data(create_hit_count_restore(handler.arg, data, record))
      [] handler.h = "filter_waivers" ->
            IF filter_waivers_raises(prefix, data) THEN Fail("ValueError")
            ELSE Data(filter_waivers(prefix, data, record, s.waivers))
      [] handler.h = "block_ids" ->
            create_block_ids_handler(set_block_ids_step, prefix, data, record)
      [] handler.h = "two_way_toggle" -> two_way_toggle_handler(prefix, data, record)
      [] handler.h = "keep_first_two" -> keep_first_two(prefix, data, record)
      [] handler.h = "newest_first" -> newest_first(prefix, data, record)

RECURSIVE RunCategoryHandlers(_, _, _, _, _, _)
RECURSIVE RunCategoryHandlers_then(_, _, _, _, _, _)
\* `for handler in handlers: data = handler(prefix, data, self)`
RunCategoryHandlers(handlers, k, prefix, data, record, s) ==
    IF k > Len(handlers) THEN Data(data)
    ELSE RunCategoryHandlers_then(handlers, k, prefix, record, s,
                                  CategoryHandler(handlers[k], prefix, data, record, s))

RunCategoryHandlers_then(handlers, k, prefix, record, s, r) ==
    IF r.exc # NoExc THEN r
    ELSE RunCategoryHandlers(handlers, k + 1, prefix, r.data, record, s)

-----------------------------------------------------------------------------
(* Lines of text *)

EntryLine(prefix, data) == [k |-> "entry", p |-> prefix, d |-> data]
TnLine(test_name) == [k |-> "tn", p |-> "TN", d |-> <<test_name>>]
EorLine == [k |-> "eor", p |-> "end_of_record", d |-> <<>>]
BlankLine == [k |-> "blank", p |-> "", d |-> <<>>]
CommentLine == [k |-> "comment", p |-> "#", d |-> <<>>]

-----------------------------------------------------------------------------
(* parser.py: Record.__str__ and Stream.__str__ *)

\* the category handlers Record.__str__ runs for prefix
\* the faulty variant runs the generic handlers first
HandlersFor_generic_first(s, prefix) ==
    IF prefix \in DOMAIN s.category_handlers
    THEN s.generic_category_handlers \o s.category_handlers[prefix]
    ELSE s.generic_category_handlers

HandlersFor(s, prefix) ==
    IF prefix \in DOMAIN s.category_handlers
    THEN s.category_handlers[prefix] \o s.generic_category_handlers
    ELSE s.generic_category_handlers

RECURSIVE StrPrefixes(_, _, _, _)
RECURSIVE StrPrefixes_then(_, _, _, _, _)
\* the loop of Record.__str__ from prefix_order[i] on; the result is the
\* Record as the handlers left it, the lines written and the exception
StrPrefixes(rec, s, i, output) ==
    IF i > Len(rec.prefix_order)
    THEN [rec |-> rec, text |-> Append(output, EorLine), exc |-> NoExc]
    ELSE StrPrefixes_then(rec, s, i, output,
             RunCategoryHandlers(HandlersFor(s, rec.prefix_order[i]), 1, rec.prefix_order[i],
                                 rec.lines_per_prefix[rec.prefix_order[i]], rec, s))

StrPrefixes_then(rec, s, i, output, r) ==
    IF r.exc # NoExc THEN [rec |-> rec, text |-> output, exc |-> r.exc]
    ELSE StrPrefixes([rec EXCEPT !.lines_per_prefix[rec.prefix_order[i]] = r.data], s, i + 1,
                     output \o [j \in DOMAIN r.data |-> EntryLine(rec.prefix_order[i], r.data[j])])

RecordStr(rec, s) == StrPrefixes(rec, s, 1, <<>>)

RECURSIVE StrRecords(_, _, _)
RECURSIVE StrRecords_then(_, _, _, _)
\* "\n".join(str(record) for record in self.records.values())
StrRecords(s, i, output) ==
    IF i > Len(s.records) THEN [stream |-> s, text |-> output, exc |-> NoExc]
    ELSE StrRecords_then(s, i, output, RecordStr(s.records[i], s))

StrRecords_then(s, i, output, r) ==
    IF r.exc # NoExc
    THEN [stream |-> [s EXCEPT !.records[i] = r.rec], text |-> output, exc |-> r.exc]
    ELSE StrRecords([s EXCEPT !.records[i] = r.rec], i + 1, output \o r.text)

StreamStr_then(s, r) ==
    [stream |-> r.stream,
     text |-> <<TnLine(IF s.test_name = None THEN "" ELSE s.test_name)>>
              \o (IF r.text = <<>> THEN <<BlankLine>> ELSE r.text),
     exc |-> r.exc]

\* Stream.__str__: the TN line, the joined records and a final newline.  The
\* join of no records is the empty string, so the final newline then ends an
\* empty line.
StreamStr(s) == StreamStr_then(s, StrRecords(s, 1, <<>>))


-----------------------------------------------------------------------------
(* parser.py: Stream.  Besides the fields of the Python object the model's *)
(* Stream carries the state of the closures installed on it (the caches of *)
(* the merge handlers, the waivers) and next_id, the identity the next     *)
(* Record object gets.                                                     *)

H(h) == [h |-> h, arg |-> ""]
HA(h, arg) == [h |-> h, arg |-> arg]

Stream(source_file_prefix) ==
    [handlers |-> EmptyMap,
     category_handlers |-> EmptyMap,
     generic_category_handlers |-> <<>>,
     records |-> <<>>,
     test_name |-> None,
     source_file_prefix |-> source_file_prefix,
     cache_da |-> EmptyMap,
     cache_brda |-> EmptyMap,
     waivers |-> EmptyMap,
     next_id |-> 1]

RECURSIVE install_each(_, _, _)
install_each(table, prefixes, handler) ==
    IF prefixes = <<>> THEN table
    ELSE install_each(Put(table, Head(prefixes), Append(Get(table, Head(prefixes), <<>>), handler)),
                      Tail(prefixes), handler)

install_handler(s, prefixes, handler) ==
    [s EXCEPT !.handlers = install_each(@, prefixes, handler)]

install_category_handler(s, prefixes, handler) ==
    [s EXCEPT !.category_handlers = install_each(@, prefixes, handler)]

install_generic_category_handler(s, handler) ==
    [s EXCEPT !.generic_category_handlers = Append(@, handler)]

\* self.records.get(source_file): the position of the Record, 0 for None
RecordIndex(records, source_file) ==
    IF \E i \in DOMAIN records : records[i].source_file = source_file
    THEN CHOOSE i \in DOMAIN records : records[i].source_file = source_file
    ELSE 0

Ctx(s, rec) ==
    [rec |-> rec, handlers |-> s.handlers, cache_da |-> s.cache_da, cache_brda |-> s.cache_brda,
     exc |-> NoExc]
WithClosures(s, ctx) == [s EXCEPT !.cache_da = ctx.cache_da, !.cache_brda = ctx.cache_brda]

\* Stream._get_matching_record: the stream with the matching Record (its
\* stats merged with record's) or with record added to records
_get_matching_record(s, record, found) ==
    IF found > 0
    THEN [s EXCEPT !.records[found] = _merge_stats(@, record)]
    ELSE [s EXCEPT !.records = Append(@, record)]

MergeBlock_then(s1, at, ctx) ==
    [stream |-> [WithClosures(s1, ctx) EXCEPT !.records[at] = ctx.rec], exc |-> ctx.exc]

MergeBlock_at(s1, at, lines) ==
    MergeBlock_then(s1, at, AddLines(Ctx(s1, s1.records[at]), s1.handlers, lines, 1))

MergeBlock_found(s, record, lines, found) ==
    MergeBlock_at(_get_matching_record(s, record, found),
                  IF found > 0 THEN found ELSE Len(s.records) + 1, lines)

\* the body of the loop of Stream.merge for one yielded block; the result
\* is [stream, record_list, exc]
MergeBlock(s, record_list, record, lines) ==
    IF record.source_file = NoSource
    THEN [stream |-> s, record_list |-> record_list, exc |-> "AssertionError"]
    ELSE [record_list |-> record_list] @@
         MergeBlock_found(s, record, lines, RecordIndex(s.records, record.source_file))

\* the faulty variant keeps the Record whose handler raised RemoveRecord
LoadBlock_then_keeping(s, record_list, ctx) ==
    [stream |-> WithClosures(s, ctx),
     record_list |-> IF ctx.exc \in {NoExc, "RemoveRecord"} THEN Append(record_list, ctx.rec)
                     ELSE record_list,
     exc |-> IF ctx.exc = "RemoveRecord" THEN NoExc ELSE ctx.exc]

LoadBlock_then(s, record_list, ctx) ==
    [stream |-> WithClosures(s, ctx),
     record_list |-> IF ctx.exc = NoExc THEN Append(record_list, ctx.rec) ELSE record_list,
     exc |-> IF ctx.exc = "RemoveRecord" THEN NoExc ELSE ctx.exc]

\* the body of the loop of Stream.load for one yielded block: the Record
\* joins record_list unless a handler raised RemoveRecord
LoadBlock(s, record_list, record, lines) ==
    LoadBlock_then(s, record_list, AddLines(Ctx(s, record), s.handlers, lines, 1))

\* _get_record_lines, lines 363-364: a TN line sets the test name of a Stream
\* that has none; the first definition is the faulty variant in which the
\* last TN line wins
SetTestName_last(s, test_name) == [s EXCEPT !.test_name = test_name]

SetTestName(s, test_name) ==
    IF s.test_name = None THEN [s EXCEPT !.test_name = test_name] ELSE s

RECURSIVE _get_record_lines(_, _, _, _, _, _, _, _)
RECURSIVE _get_record_lines_then(_, _, _, _, _, _)
\* Stream._get_record_lines from line i on, together with its consumer: each
\* yielded block is handed to Stream.merge (mode "merge") or Stream.load
\* (mode "load") before the next line is read.  The result is
\* [stream, record_list, exc].
_get_record_lines(s, text, i, record, lines, mode, test_file, record_list) ==
    IF i > Len(text) THEN [stream |-> s, record_list |-> record_list, exc |-> NoExc]
    ELSE CASE text[i].k = "comment" ->
                _get_record_lines(s, text, i + 1, record, lines, mode, test_file, record_list)
           [] text[i].k = "tn" ->
                _get_record_lines(SetTestName(s, text[i].d[1]),
                                  text, i + 1, record, lines, mode, test_file, record_list)
           [] text[i].k = "eor" ->
                _get_record_lines_then(text, i, mode, test_file, s.source_file_prefix,
                    IF mode = "merge" THEN MergeBlock(s, record_list, record, lines)
                    ELSE LoadBlock(s, record_list, record, lines))
           [] text[i].k = "blank" ->
                \* split_entry: nothing to unpack
                [stream |-> s, record_list |-> record_list, exc |-> "ValueError"]
           [] text[i].k = "entry" ->
                _get_record_lines(s, text, i + 1,
                                  _update_stats(record, text[i].p, text[i].d, test_file),
                                  Append(lines, text[i]), mode, test_file, record_list)

\* after a block has been consumed: the generator makes the next Record
_get_record_lines_then(text, i, mode, test_file, source_file_prefix, r) ==
    IF r.exc # NoExc THEN r
    ELSE _get_record_lines([r.stream EXCEPT !.next_id = @ + 1], text, i + 1,
                           Record(r.stream.next_id, source_file_prefix),
                           <<>>, mode, test_file, r.record_list)

\* the generator started: its first Record is created before any line is read
ReadText(s, text, mode, test_file) ==
    _get_record_lines([s EXCEPT !.next_id = @ + 1], text, 1,
                      Record(s.next_id, s.source_file_prefix), <<>>, mode, test_file, <<>>)

RECURSIVE ExtendPrefixes(_, _, _)
\* load, lines 319-321: the lists of record appended to those of duplicate
ExtendPrefixes(duplicate, record, i) ==
    IF i > Len(record.prefix_order) THEN duplicate
    ELSE LET prefix == record.prefix_order[i]
             d1 == _ensure_prefix(duplicate, prefix)
         IN ExtendPrefixes(
                [d1 EXCEPT !.lines_per_prefix[prefix] = @ \o record.lines_per_prefix[prefix]],
                record, i + 1)

RECURSIVE RecordListToDict(_, _, _)
\* load, lines 317-323
RecordListToDict(records, record_list, i) ==
    IF i > Len(record_list) THEN records
    ELSE LET record == record_list[i]
             found == RecordIndex(records, record.source_file)
         IN RecordListToDict(
                IF found > 0
                THEN [records EXCEPT ![found] = ExtendPrefixes(@, record, 1)]
                ELSE Append(records, record),
                record_list, i + 1)

load_then(r) ==
    IF r.exc # NoExc THEN [stream |-> r.stream, exc |-> r.exc]
    ELSE [stream |-> [r.stream EXCEPT !.records = RecordListToDict(@, r.record_list, 1)],
          exc |-> NoExc]

\* Stream.load; the result is [stream, exc]
load(s, text) == load_then(ReadText(s, text, "load", None))

merge_then(r) == [stream |-> r.stream, exc |-> r.exc]

\* Stream.merge; the result is [stream, exc]
merge(s, text, test_file_path) == merge_then(ReadText(s, text, "merge", test_file_path))

-----------------------------------------------------------------------------
(* parser.py: Record.diff and Stream.diff *)

NoEntry == <<>>      \* None where an entry is expected

RECURSIVE DictKeys(_, _)
\* the keys of {key(entry): entry for entry in entries}, key being the text
\* before the first comma, in the dict's order (first occurrence)
DictKeys(entries, seen) ==
    IF entries = <<>> THEN <<>>
    ELSE IF Head(entries)[1] \in seen THEN DictKeys(Tail(entries), seen)
    ELSE <<Head(entries)[1]>> \o DictKeys(Tail(entries), seen \cup {Head(entries)[1]})

\* the value of that dict under name: the last entry with the key, or None
DictGet(entries, name) ==
    IF \E i \in DOMAIN entries : entries[i][1] = name
    THEN entries[CHOOSE i \in DOMAIN entries :
                    /\ entries[i][1] = name
                    /\ \A j \in DOMAIN entries : entries[j][1] = name => j <= i]
    ELSE NoEntry

\* match_second_entries_by on two record dicts: for every key of second, in
\* order, the positions of the Record in first (0 for None) and in second;
\* the first definition is the faulty variant that leaves out the keys
\* first does not have
match_common_entries_by(first, second) ==
    SelectSeq([i \in DOMAIN second |->
                  [name |-> second[i].source_file,
                   this |-> RecordIndex(first, second[i].source_file),
                   other |-> i]],
              LAMBDA pair : pair.this > 0)
match_second_entries_by(first, second) ==
    [i \in DOMAIN second |->
        [name |-> second[i].source_file,
         this |-> RecordIndex(first, second[i].source_file),
         other |-> i]]

MatchedItems(first_entries, second_entries, names) ==
    [i \in DOMAIN names |->
        [name |-> names[i],
         old |-> DictGet(first_entries, names[i]),
         new |-> DictGet(second_entries, names[i])]]

\* the result dict as the sequence of its items
match_second_prefix_entries_by(first, second, prefix) ==
    IF prefix \notin DOMAIN first.lines_per_prefix \/ prefix \notin DOMAIN second.lines_per_prefix
    THEN <<>>
    ELSE MatchedItems(first.lines_per_prefix[prefix], second.lines_per_prefix[prefix],
                      DictKeys(second.lines_per_prefix[prefix], {}))

\* Record.diff.CoverageLine.__init__: line.rsplit(',', 1)
CoverageLine(line) ==
    [base |-> SubSeq(line, 1, Len(line) - 1), line_hit |-> line[Len(line)] > 0]

\* CoverageLine.__repr__, which new_value returns; the first definition is
\* the faulty variant that drops the hit flag's conversion to 0 or 1
CoverageLineRepr_hits(cl, line) == line
CoverageLineRepr(cl, line) == cl.base \o <<IF cl.line_hit THEN 1 ELSE 0>>

\* Record.diff.keep_line; the first definition is the faulty variant that
\* keeps every line of `other`
keep_line_all(old_line, new_line) == TRUE
keep_line(old_line, new_line) ==
    IF old_line = NoEntry THEN TRUE
    ELSE CoverageLine(old_line).line_hit # CoverageLine(new_line).line_hit

\* Record.diff.new_value: [data, exc], data holding the one value returned
new_value(old_line, new_line) ==
    IF old_line # NoEntry /\ CoverageLine(old_line).base # CoverageLine(new_line).base
    THEN Fail("AssertionError")
    ELSE Data(<<CoverageLineRepr(CoverageLine(new_line), new_line)>>)

RECURSIVE NewLines(_, _, _)
RECURSIVE NewLines_then(_, _, _, _)
\* the list comprehension of generate_new_lines_from over the matched items
NewLines(items, i, acc) ==
    IF i > Len(items) THEN Data(acc)
    ELSE IF keep_line(items[i].old, items[i].new)
    THEN NewLines_then(items, i, acc, new_value(items[i].old, items[i].new))
    ELSE NewLines(items, i + 1, acc)

NewLines_then(items, i, acc, v) ==
    IF v.exc # NoExc THEN v ELSE NewLines(items, i + 1, acc \o v.data)

\* Record.diff.generate_new_lines_from, `other` being the Record diffed against
generate_new_lines_from(first, second, prefix) ==
    IF prefix \notin DOMAIN second.lines_per_prefix THEN Data(<<>>)
    ELSE NewLines(match_second_prefix_entries_by(first, second, prefix), 1, <<>>)

\* `other.lines_per_prefix[prefix] = generate_new_lines_from(self, other, prefix)`
\* on [rec, exc]; nothing is assigned once an assertion has failed
AssignNewLines_then(o, prefix, lines) ==
    IF lines.exc # NoExc THEN [rec |-> o.rec, exc |-> lines.exc]
    ELSE [rec |-> [o.rec EXCEPT !.lines_per_prefix = Put(@, prefix, lines.data)], exc |-> NoExc]

AssignNewLines(this, o, prefix) ==
    IF o.exc # NoExc THEN o
    ELSE AssignNewLines_then(o, prefix, generate_new_lines_from(this, o.rec, prefix))

\* Record.diff (self = this); the result is [rec, exc], rec being `other`
\* as the method leaves it
RecordDiff(this, other) ==
    AssignNewLines(this, AssignNewLines(this, [rec |-> other, exc |-> NoExc], "DA"), "BRDA")

RECURSIVE DiffRecords(_, _, _, _, _)
RECURSIVE DiffRecords_then(_, _, _, _, _, _)
\* the loop of Stream.diff over the paired records; other's Records are
\* changed in place, so other_records follows them
DiffRecords(this_records, other_records, paired, i, diffed_records) ==
    IF i > Len(paired)
    THEN [records |-> other_records, diffed_records |-> diffed_records, exc |-> NoExc]
    ELSE IF paired[i].this > 0
    THEN DiffRecords_then(this_records, other_records, paired, i, diffed_records,
                          RecordDiff(this_records[paired[i].this], other_records[paired[i].other]))
    ELSE DiffRecords(this_records, other_records, paired, i + 1,
                     Append(diffed_records, other_records[paired[i].other]))

DiffRecords_then(this_records, other_records, paired, i, diffed_records, r) ==
    IF r.exc # NoExc
    THEN [records |-> [other_records EXCEPT ![paired[i].other] = r.rec],
          diffed_records |-> diffed_records, exc |-> r.exc]
    ELSE DiffRecords(this_records, [other_records EXCEPT ![paired[i].other] = r.rec],
                     paired, i + 1, Append(diffed_records, r.rec))

StreamDiff_then(other_stream, r) ==
    [stream |-> [other_stream EXCEPT
                    !.records = IF r.exc # NoExc THEN r.records ELSE r.diffed_records],
     exc |-> r.exc]

\* Stream.diff (self = this_stream); the result is [stream, exc], stream
\* being other_stream as the method leaves it
StreamDiff(this_stream, other_stream) ==
    StreamDiff_then(other_stream,
        DiffRecords(this_stream.records, other_stream.records,
                    match_second_entries_by(this_stream.records, other_stream.records),
                    1, <<>>))

-----------------------------------------------------------------------------
(* Input texts *)

DA(line, hits) == EntryLine("DA", <<line, hits>>)
BRDA(line, block, name, hits) == EntryLine("BRDA", <<line, block, name, hits>>)
SF(path) == EntryLine("SF", <<path>>)
Misc(prefix, value) == EntryLine(prefix, <<value>>)

\* a record block: the SF line, the entries, the terminator
Block(path, entries) == <<SF(path)>> \o entries \o <<EorLine>>

\* the records of a text as the tokenizer delimits them, without the engine:
\* the entry lines of each terminated block
RECURSIVE BlocksOf(_, _)
BlocksOf(text, current) ==
    IF text = <<>> THEN <<>>
    ELSE IF Head(text).k = "eor" THEN <<current>> \o BlocksOf(Tail(text), <<>>)
    ELSE IF Head(text).k = "entry" THEN BlocksOf(Tail(text), Append(current, Head(text)))
    ELSE BlocksOf(Tail(text), current)

RECURSIVE Flatten(_)
Flatten(seqs) == IF seqs = <<>> THEN <<>> ELSE Head(seqs) \o Flatten(Tail(seqs))

\* the source file of a block: the payload of its first SF line
BlockSource(block) ==
    LET sfs == SelectSeq(block, LAMBDA l : l.p = "SF")
    IN IF sfs = <<>> THEN NoSource ELSE sfs[1].d

\* the payloads of prefix that the texts hold for source_file, in reading order
RECURSIVE Ingested(_, _, _)
Ingested(blocks, source_file, prefix) ==
    IF blocks = <<>> THEN <<>>
    ELSE LET here == IF BlockSource(Head(blocks)) = source_file
                     THEN SelectSeq(Head(blocks), LAMBDA l : l.p = prefix)
                     ELSE <<>>
         IN [i \in DOMAIN here |-> here[i].d] \o Ingested(Tail(blocks), source_file, prefix)

IngestedBy(texts, source_file, prefix) ==
    Ingested(Flatten([i \in DOMAIN texts |-> BlocksOf(texts[i], <<>>)]), source_file, prefix)

RECURSIVE SumOf(_, _)
\* the sum of field k over a sequence of payloads
SumOf(payloads, k) ==
    IF payloads = <<>> THEN 0 ELSE Head(payloads)[k] + SumOf(Tail(payloads), k)

MaxOf(payloads, k) ==
    CHOOSE m \in {payloads[i][k] : i \in DOMAIN payloads} :
        \A i \in DOMAIN payloads : payloads[i][k] <= m

-----------------------------------------------------------------------------
(* The merge command (merge.py main): the Stream it configures, the inputs *)
(* it merges one after the other, and the save that ends it.               *)

MaxMerges == 2

\* merge.py main, lines 177-191
MergeStream ==
    LET s0 == Stream("SF")
        s1 == install_handler(s0, <<"BRDA">>, H("merge_brda"))
        s2 == install_handler(s1, <<"DA">>, H("merge_da"))
        s3 == install_category_handler(s2, <<"BRDA">>, H("sort_brda"))
        s4 == install_category_handler(s3, <<"DA">>, H("sort_da"))
        s5 == install_category_handler(s4, <<"BRF">>, HA("count_restore", "BRDA"))
        s6 == install_category_handler(s5, <<"BRH">>, HA("hit_count_restore", "BRDA"))
        s7 == install_category_handler(s6, <<"LF">>, HA("count_restore", "DA"))
        s8 == install_category_handler(s7, <<"LH">>, HA("hit_count_restore", "DA"))
    IN install_category_handler(s8, <<"SF", "FNF", "FNH">>, H("squash_misc"))

MergeDAParts ==
    { <<>>,
      <<DA(1, 1)>>,
      <<DA(2, 1), DA(1, 0), DA(2, 2)>> }

MergeBRDAParts ==
    { <<>>,
      <<BRDA(1, 0, "a", 1)>>,
      <<BRDA(1, 1, "a", 0), BRDA(1, 0, "b", 2), BRDA(1, 2, "b", 0)>> }

MergeMiscParts ==
    { <<>>,
      <<Misc("FNF", 1)>>,
      <<Misc("FNF", 2), Misc("LF", 9), Misc("LH", 9), Misc("BRF", 9), Misc("BRH", 9)>> }

MergeInputs ==
    { <<TnLine("t")>> \o Block(path, misc \o da \o brda) :
        path \in {"f", "g"}, misc \in MergeMiscParts,
        da \in MergeDAParts, brda \in MergeBRDAParts }
    \cup
    { \* two records in one text, for the same and for different source files
      <<TnLine("t")>> \o Block("f", <<DA(1, 2)>>) \o Block("f", <<DA(1, 1), BRDA(2, 0, "a", 1)>>),
      <<TnLine("t")>> \o Block("g", <<BRDA(2, 1, "a", 1)>>) \o Block("f", <<DA(2, 3)>>),
      \* BRDA entries of one line and one block under several names
      <<TnLine("t")>> \o Block("f", <<DA(3, 1), BRDA(2, 1, "b", 1), BRDA(2, 0, "c", 1),
                                      BRDA(2, 0, "a", 0), BRDA(1, 0, "a", 1), DA(1, 0)>>),
      \* a record without an SF line
      <<TnLine("t"), DA(1, 1), EorLine>> }

MergeInit ==
    /\ pc = "merging"
    /\ stream = MergeStream
    /\ base = Stream("SF")
    /\ inputs = <<>>
    /\ out = <<>>
    /\ exc = NoExc
    /\ snap = MergeStream
    /\ labels = <<>>
    /\ test_list = <<>>

\* merge.py main, lines 203-210: one pass of the loop over the inputs
MergeInput(text) ==
    /\ pc = "merging"
    /\ exc = NoExc
    /\ Len(inputs) < MaxMerges
    /\ \E r \in {merge(stream, text, None)} :
          /\ stream' = r.stream
          /\ exc' = r.exc
    /\ inputs' = Append(inputs, text)
    /\ UNCHANGED <<pc, base, out, snap, labels, test_list>>

\* merge.py main, lines 213-214: the output file is opened, which empties it,
\* and Stream.save writes str(stream) to it
SaveMerged ==
    /\ pc = "merging"
    /\ exc = NoExc
    /\ Len(inputs) >= 1
    /\ \E r \in {StreamStr(stream)} :
          /\ stream' = r.stream
          /\ exc' = r.exc
          /\ out' = IF r.exc = NoExc THEN r.text ELSE <<>>
    /\ snap' = stream
    /\ pc' = "saved"
    /\ UNCHANGED <<base, inputs, labels, test_list>>

MergeNext ==
    \/ \E text \in MergeInputs : MergeInput(text)
    \/ SaveMerged

SpecMerge == MergeInit /\ [][MergeNext]_vars

-----------------------------------------------------------------------------
(* Claims about merging, checked under SpecMerge *)

Sources(texts) ==
    LET blocks == Flatten([i \in DOMAIN texts |-> BlocksOf(texts[i], <<>>)])
    IN {BlockSource(blocks[i]) : i \in DOMAIN blocks}

\* the payloads of a list whose leading fields (key positions ks) equal those of e
SameKey(payloads, e, ks) ==
    SelectSeq(payloads, LAMBDA x : \A k \in ks : x[k] = e[k])

\* C1: after any sequence of Stream.merge calls on a merge-configured Stream
\* every Record holds at most one DA entry per line number, and the entry's
\* hit count is the sum of the hit counts of all DA entries of that line
\* ingested for the Record's source file.
C1_DAOnePerLineWithSummedHits ==
    exc = NoExc =>
        \A r \in DOMAIN stream.records :
            LET rec == stream.records[r]
                das == Get(rec.lines_per_prefix, "DA", <<>>)
                ingested == IngestedBy(inputs, rec.source_file, "DA")
            IN \A i \in DOMAIN das :
                  /\ Len(SameKey(das, das[i], {1})) = 1
                  /\ das[i][2] = SumOf(SameKey(ingested, das[i], {1}), 2)

\* C1's case: a stored DA entry that stands for several ingested ones
C1_Witness ==
    /\ exc = NoExc
    /\ Len(inputs) = 2
    /\ \E r \in DOMAIN stream.records :
          LET rec == stream.records[r]
              das == Get(rec.lines_per_prefix, "DA", <<>>)
              ingested == IngestedBy(inputs, rec.source_file, "DA")
          IN \E i \in DOMAIN das :
                /\ Len(SameKey(ingested, das[i], {1})) >= 3
                /\ das[i][2] >= 4

\* C2: after any sequence of Stream.merge calls on a merge-configured Stream
\* every Record holds exactly one BRDA entry per ingested (line, name) pair;
\* its hit count is the sum of the hit counts and its block id the maximum of
\* the block ids of the ingested BRDA entries with that (line, name).
C2_BRDAOnePerKeyWithSumAndMaxBlock ==
    exc = NoExc =>
        /\ \A r \in DOMAIN stream.records :
              LET rec == stream.records[r]
                  brdas == Get(rec.lines_per_prefix, "BRDA", <<>>)
                  ingested == IngestedBy(inputs, rec.source_file, "BRDA")
              IN /\ \A i \in DOMAIN brdas :
                        /\ Len(SameKey(brdas, brdas[i], {1, 3})) = 1
                        /\ SameKey(ingested, brdas[i], {1, 3}) # <<>>
                        /\ brdas[i][4] = SumOf(SameKey(ingested, brdas[i], {1, 3}), 4)
                        /\ brdas[i][2] = MaxOf(SameKey(ingested, brdas[i], {1, 3}), 2)
                 /\ \A j \in DOMAIN ingested : SameKey(brdas, ingested[j], {1, 3}) # <<>>
        /\ \A source_file \in Sources(inputs) :
              IngestedBy(inputs, source_file, "BRDA") # <<>> =>
                  RecordIndex(stream.records, source_file) > 0

\* C2's case: a stored BRDA entry that stands for ingested entries with
\* different block ids, next to another name on the same line
C2_Witness ==
    /\ exc = NoExc
    /\ \E r \in DOMAIN stream.records :
          LET rec == stream.records[r]
              brdas == Get(rec.lines_per_prefix, "BRDA", <<>>)
              ingested == IngestedBy(inputs, rec.source_file, "BRDA")
          IN \E i, j \in DOMAIN brdas :
                /\ brdas[i][1] = brdas[j][1] /\ brdas[i][3] # brdas[j][3]
                /\ \E a, b \in DOMAIN ingested :
                      /\ a < b
                      /\ SameKey(<<ingested[a]>>, brdas[i], {1, 3}) # <<>>
                      /\ SameKey(<<ingested[b]>>, brdas[i], {1, 3}) # <<>>
                      /\ ingested[a][2] > ingested[b][2]
                      /\ ingested[b][4] > 0

SquashedPrefixes == {"SF", "FNF", "FNH"}

\* C9: when the entries accumulated for a squashed prefix (SF, FNF, FNH) of
\* a merged Record do not all carry the same value, saving the merge result
\* fails with an error.
C9_SquashDisagreementIsAnError ==
    (pc = "saved" /\ \E r \in DOMAIN snap.records :
                        \E prefix \in SquashedPrefixes \cap DOMAIN snap.records[r].lines_per_prefix :
                            Cardinality(Range(snap.records[r].lines_per_prefix[prefix])) > 1)
        => exc # NoExc

\* the merged totals of a Stream: per source file the DA and BRDA payloads as sets
Totals(s, prefix) ==
    UNION { {<<s.records[r].source_file, e>> :
                e \in Range(Get(s.records[r].lines_per_prefix, prefix, <<>>))} :
            r \in DOMAIN s.records }

\* merging the texts, in order, into a fresh merge-configured Stream
RECURSIVE MergeAll(_, _)
MergeAll(r, texts) ==
    IF texts = <<>> \/ r.exc # NoExc THEN r
    ELSE MergeAll(merge(r.stream, Head(texts), None), Tail(texts))

\* C10: merging A then B and merging B then A into fresh merge-configured
\* Streams give, for every source file, the same DA lines and BRDA
\* (line, name) keys with the same hit-count totals and block ids.
C10_MergeOrderIndependent ==
    (pc = "merging" /\ Len(inputs) = 2) =>
        LET ba == MergeAll([stream |-> MergeStream, exc |-> NoExc], <<inputs[2], inputs[1]>>)
        IN /\ (exc = NoExc) <=> (ba.exc = NoExc)
           /\ exc = NoExc =>
                 /\ Totals(stream, "DA") = Totals(ba.stream, "DA")
                 /\ Totals(stream, "BRDA") = Totals(ba.stream, "BRDA")

\* C10's case: two different inputs with common keys, different hit counts
\* and different block ids, stored in a different order by the two merges
C10_Witness ==
    /\ pc = "merging" /\ Len(inputs) = 2 /\ exc = NoExc
    /\ inputs[1] # inputs[2]
    /\ LET ba == MergeAll([stream |-> MergeStream, exc |-> NoExc], <<inputs[2], inputs[1]>>)
       IN /\ ba.stream.records # stream.records
          /\ \E r \in DOMAIN stream.records :
                LET source_file == stream.records[r].source_file
                    a == IngestedBy(<<inputs[1]>>, source_file, "BRDA")
                    b == IngestedBy(<<inputs[2]>>, source_file, "BRDA")
                IN \E i \in DOMAIN a, j \in DOMAIN b :
                      /\ a[i][1] = b[j][1] /\ a[i][3] = b[j][3]
                      /\ a[i][2] > b[j][2] /\ a[i][4] # b[j][4]

-----------------------------------------------------------------------------
(* The diff of one dataset (archive_diff.py main with compare.py           *)
(* unpack_existing_into_stream_pairs): `this` and `other` are loaded into  *)
(* Streams without handlers, this.diff(other) is computed and written.     *)
(* base holds `this`, stream holds `other`, snap is `other` as loaded.     *)

DiffDAParts ==
    { <<>>,
      <<DA(10, 0), DA(11, 5), DA(12, 0)>>,
      <<DA(11, 7), DA(10, 3), DA(13, 0)>>,
      <<DA(12, 2), DA(10, 0)>> }

DiffBRDAParts ==
    { <<>>,
      <<BRDA(3, 0, "a", 1)>>,
      <<BRDA(3, 0, "b", 1), BRDA(4, 0, "a", 0)>>,
      <<BRDA(3, 0, "a", 0), BRDA(4, 1, "a", 2)>>,
      \* two branches of one line
      <<BRDA(3, 0, "a", 1), BRDA(3, 0, "b", 0)>> }

DiffInputs ==
    { <<TnLine("t")>> \o Block(path, da \o brda \o <<Misc("LF", 3)>>) :
        path \in {"f", "g"}, da \in DiffDAParts, brda \in DiffBRDAParts }
    \cup
    { \* several records in one text
      <<TnLine("t")>> \o Block("h", <<DA(1, 7)>>) \o Block("f", <<DA(10, 1), DA(12, 1)>>)
                      \o Block("e", <<DA(2, 1)>>),
      <<TnLine("t")>> \o Block("g", <<DA(10, 2)>>) \o Block("h", <<DA(1, 0)>>)
                      \o Block("f", <<BRDA(3, 0, "a", 2), DA(10, 0)>>),
      \* no records
      <<TnLine("t")>> }

DiffInit ==
    /\ pc = "start"
    /\ stream = Stream("SF")
    /\ base = Stream("SF")
    /\ inputs = <<>>
    /\ out = <<>>
    /\ exc = NoExc
    /\ snap = Stream("SF")
    /\ labels = <<>>
    /\ test_list = <<>>

\* compare.py unzip_to_stream for `this`
DiffLoadThis(text) ==
    /\ pc = "start"
    /\ \E r \in {load(Stream("SF"), text)} :
          /\ base' = r.stream
          /\ exc' = r.exc
    /\ inputs' = <<text>>
    /\ pc' = "this"
    /\ UNCHANGED <<stream, out, snap, labels, test_list>>

\* compare.py unzip_to_stream for `other`
DiffLoadOther(text) ==
    /\ pc = "this"
    /\ exc = NoExc
    /\ \E r \in {load(Stream("SF"), text)} :
          /\ stream' = r.stream
          /\ snap' = r.stream
          /\ exc' = r.exc
    /\ inputs' = Append(inputs, text)
    /\ pc' = "other"
    /\ UNCHANGED <<base, out, labels, test_list>>

\* archive_diff.py main, lines 55-57
DiffStreams ==
    /\ pc = "other"
    /\ exc = NoExc
    /\ \E r \in {StreamDiff(base, stream)} :
          /\ stream' = r.stream
          /\ exc' = r.exc
    /\ pc' = "diffed"
    /\ UNCHANGED <<base, inputs, out, snap, labels, test_list>>

\* archive_diff.py main, lines 67-69
DiffWrite ==
    /\ pc = "diffed"
    /\ exc = NoExc
    /\ \E r \in {StreamStr(stream)} :
          /\ stream' = r.stream
          /\ exc' = r.exc
          /\ out' = IF r.exc = NoExc THEN r.text ELSE <<>>
    /\ pc' = "written"
    /\ UNCHANGED <<base, inputs, snap, labels, test_list>>

DiffNext ==
    \/ \E text \in DiffInputs : DiffLoadThis(text)
    \/ \E text \in DiffInputs : DiffLoadOther(text)
    \/ DiffStreams
    \/ DiffWrite

SpecDiff == DiffInit /\ [][DiffNext]_vars

-----------------------------------------------------------------------------
(* Claims about diffing, checked under SpecDiff *)

\* this.diff(other) has returned
Diffed == pc = "diffed" /\ exc = NoExc

\* the position in base of the Record that other's i-th Record is paired
\* with, 0 when there is none
BaseOf(i) == RecordIndex(base.records, snap.records[i].source_file)

\* the list of prefix in a Record, empty when the Record has none
ListOf(rec, prefix) == Get(rec.lines_per_prefix, prefix, <<>>)

\* the entry with its hit count replaced by 1 when positive, by 0 otherwise
Flagged(entry) ==
    SubSeq(entry, 1, Len(entry) - 1) \o <<IF entry[Len(entry)] > 0 THEN 1 ELSE 0>>

Covered(entry) == entry[Len(entry)] > 0

OnePerLine(entries) ==
    \A i, j \in DOMAIN entries : entries[i][1] = entries[j][1] => i = j

LineNumbers(entries) == [i \in DOMAIN entries |-> entries[i][1]]

\* C4 (as stated): every DA or BRDA entry that Record.diff keeps is an entry
\* of `other` verbatim, with its original hit count.
C4_KeptEntriesVerbatim ==
    Diffed =>
        \A i \in DOMAIN stream.records : \A prefix \in {"DA", "BRDA"} :
            BaseOf(i) > 0 =>
                Range(ListOf(stream.records[i], prefix)) \subseteq Range(ListOf(snap.records[i], prefix))

\* C4 (amended): every DA or BRDA entry that Record.diff keeps is an entry of
\* `other` with its fields other than the hit count verbatim and with the hit
\* count 1 if other's hit count is positive and 0 otherwise.
C4_KeptEntriesFlagged ==
    Diffed =>
        \A i \in DOMAIN stream.records : \A prefix \in {"DA", "BRDA"} :
            BaseOf(i) > 0 =>
                \A kept \in Range(ListOf(stream.records[i], prefix)) :
                    \E entry \in Range(ListOf(snap.records[i], prefix)) : kept = Flagged(entry)

\* base DA:10,0 and other DA:10,3 have been diffed: the result holds 10,1
C4_Witness ==
    /\ Diffed
    /\ \E i \in DOMAIN stream.records :
          /\ BaseOf(i) > 0
          /\ <<10, 0>> \in Range(ListOf(base.records[BaseOf(i)], "DA"))
          /\ <<10, 3>> \in Range(ListOf(snap.records[i], "DA"))
          /\ <<10, 1>> \in Range(ListOf(stream.records[i], "DA"))
          /\ <<10, 3>> \notin Range(ListOf(stream.records[i], "DA"))

\* the DA entries of other that the diff is to keep: those whose line base
\* lacks or has in the other covered state
DAToKeep(base_entries, other_entries) ==
    SelectSeq(other_entries,
              LAMBDA new : \A old \in Range(base_entries) :
                               old[1] = new[1] => Covered(old) # Covered(new))

\* C5: for two Records with the same source file that both contain DA
\* entries, at most one per line, the DA list of the diff has an entry for
\* line L of `other` iff base has no DA entry for L or base's entry for L
\* differs in covered state; lines only in base never appear and the kept
\* entries are in other's order.
C5_DAKeptIffNewOrFlipped ==
    Diffed =>
        \A i \in DOMAIN snap.records :
            ( /\ BaseOf(i) > 0
              /\ "DA" \in DOMAIN base.records[BaseOf(i)].lines_per_prefix
              /\ "DA" \in DOMAIN snap.records[i].lines_per_prefix
              /\ OnePerLine(ListOf(base.records[BaseOf(i)], "DA"))
              /\ OnePerLine(ListOf(snap.records[i], "DA")) )
            => LineNumbers(ListOf(stream.records[i], "DA"))
                 = LineNumbers(DAToKeep(ListOf(base.records[BaseOf(i)], "DA"),
                                        ListOf(snap.records[i], "DA")))

\* base 10,0 11,5 12,0 and other 11,7 10,3 13,0 have been diffed: line 11 is
\* dropped, 10 (flipped) and 13 (new) are kept, 12 (base only) is absent
C5_Witness ==
    /\ Diffed
    /\ \E i \in DOMAIN snap.records :
          /\ BaseOf(i) > 0
          /\ ListOf(base.records[BaseOf(i)], "DA") = << <<10, 0>>, <<11, 5>>, <<12, 0>> >>
          /\ ListOf(snap.records[i], "DA") = << <<11, 7>>, <<10, 3>>, <<13, 0>> >>
          /\ LineNumbers(ListOf(stream.records[i], "DA")) = <<10, 13>>

\* C6: the records of Stream.diff(base, other) are exactly those whose source
\* file is a key of `other`, in other's order; a record whose source file is
\* absent from base is there with every entry of every prefix unchanged, and
\* a source file present only in base has no record.
C6_RecordsAreOthersKeys ==
    Diffed =>
        /\ [i \in DOMAIN stream.records |-> stream.records[i].source_file]
             = [i \in DOMAIN snap.records |-> snap.records[i].source_file]
        /\ \A i \in DOMAIN snap.records :
              BaseOf(i) = 0 =>
                  /\ stream.records[i].prefix_order = snap.records[i].prefix_order
                  /\ stream.records[i].lines_per_prefix = snap.records[i].lines_per_prefix
        /\ \A b \in DOMAIN base.records :
              RecordIndex(snap.records, base.records[b].source_file) = 0 =>
                  RecordIndex(stream.records, base.records[b].source_file) = 0

\* a diff in which other has a record base lacks, a record base has too, and
\* base has a record other lacks
C6_Witness ==
    /\ Diffed
    /\ \E i, j \in DOMAIN snap.records :
          /\ BaseOf(i) = 0
          /\ BaseOf(j) > 0
          /\ ListOf(snap.records[i], "DA") # <<>>
    /\ \E b \in DOMAIN base.records :
          RecordIndex(snap.records, base.records[b].source_file) = 0

\* the entries base and other hold under one key of prefix differ in a field
\* other than the hit count
Mismatch(this, other, prefix) ==
    \E item \in Range(match_second_prefix_entries_by(this, other, prefix)) :
        /\ item.old # NoEntry
        /\ CoverageLine(item.old).base # CoverageLine(item.new).base

\* C7: whenever Record.diff finds an entry in base and an entry in `other`
\* under the same key (DA or BRDA, keyed by line number) whose fields other
\* than the hit count are not identical, the diff fails with an error,
\* whether or not the covered state of the two entries differs.
C7_MismatchIsAnError ==
    pc = "diffed" =>
        \A i \in DOMAIN snap.records :
            ( /\ BaseOf(i) > 0
              /\ \E prefix \in {"DA", "BRDA"} :
                    Mismatch(base.records[BaseOf(i)], snap.records[i], prefix) )
            => exc # NoExc

-----------------------------------------------------------------------------
(* Load, save and load again with Streams that have no handlers            *)
(* (Stream.load, Stream.save): stream is the Stream loaded from the input, *)
(* snap the same before it is saved, out the saved text and base the       *)
(* Stream loaded from out.                                                 *)

RoundMiscParts ==
    { <<>>,
      <<Misc("FNF", 1), Misc("LF", 2)>> }

RoundDAParts ==
    { <<>>,
      <<DA(2, 1), DA(1, 0), DA(2, 1)>>,
      <<DA(1, 3)>> }

RoundBRDAParts ==
    { <<>>,
      <<BRDA(1, 0, "a", 1)>>,
      <<BRDA(2, 1, "b", 0), BRDA(1, 0, "a", 2)>> }

RoundInputs ==
    { <<TnLine("t")>> \o Block(path, da \o misc \o brda) :
        path \in {"f", "g"}, misc \in RoundMiscParts,
        da \in RoundDAParts, brda \in RoundBRDAParts }
    \cup
    { \* records with the same source file, which load joins
      <<TnLine("t")>> \o Block("f", <<DA(1, 2)>>) \o Block("g", <<DA(1, 0)>>)
                      \o Block("f", <<BRDA(1, 0, "a", 1), DA(1, 1)>>),
      \* comments and a second TN line
      <<CommentLine, TnLine("t")>> \o Block("f", <<DA(1, 2)>>)
          \o <<TnLine("u"), CommentLine>> \o Block("g", <<DA(3, 1)>>),
      \* a record without entries and a record without an SF line
      <<TnLine("t"), EorLine, DA(1, 1), EorLine>>,
      \* an empty test name
      <<TnLine("")>> \o Block("f", <<DA(1, 2)>>),
      \* no TN line
      Block("f", <<DA(1, 2)>>),
      \* no records
      <<TnLine("t")>> }

RoundInit ==
    /\ pc = "start"
    /\ stream = Stream("SF")
    /\ base = Stream("SF")
    /\ inputs = <<>>
    /\ out = <<>>
    /\ exc = NoExc
    /\ snap = Stream("SF")
    /\ labels = <<>>
    /\ test_list = <<>>

\* Stream.load of the input
RoundLoad(text) ==
    /\ pc = "start"
    /\ \E r \in {load(Stream("SF"), text)} :
          /\ stream' = r.stream
          /\ snap' = r.stream
          /\ exc' = r.exc
    /\ inputs' = <<text>>
    /\ pc' = "loaded"
    /\ UNCHANGED <<base, out, labels, test_list>>

\* Stream.save
RoundSave ==
    /\ pc = "loaded"
    /\ exc = NoExc
    /\ \E r \in {StreamStr(stream)} :
          /\ stream' = r.stream
          /\ exc' = r.exc
          /\ out' = IF r.exc = NoExc THEN r.text ELSE <<>>
    /\ pc' = "saved"
    /\ UNCHANGED <<base, inputs, snap, labels, test_list>>

\* Stream.load of the saved text into a new Stream
RoundReload ==
    /\ pc = "saved"
    /\ exc = NoExc
    /\ \E r \in {load(Stream("SF"), out)} :
          /\ base' = r.stream
          /\ exc' = r.exc
    /\ pc' = "reloaded"
    /\ UNCHANGED <<stream, inputs, out, snap, labels, test_list>>

RoundNext ==
    \/ \E text \in RoundInputs : RoundLoad(text)
    \/ RoundSave
    \/ RoundReload

SpecRound == RoundInit /\ [][RoundNext]_vars

-----------------------------------------------------------------------------
(* Claims about the round trip, checked under SpecRound *)

\* the same test name, the same records keyed by source file in the same
\* order, and per record the same prefix order and the same list per prefix
SameContent(a, b) ==
    /\ a.test_name = b.test_name
    /\ Len(a.records) = Len(b.records)
    /\ \A i \in DOMAIN a.records :
          /\ a.records[i].source_file = b.records[i].source_file
          /\ a.records[i].prefix_order = b.records[i].prefix_order
          /\ \A prefix \in Range(a.records[i].prefix_order) :
                ListOf(a.records[i], prefix) = ListOf(b.records[i], prefix)

\* a tracefile with a TN line whose lines are all comments, TN lines, entries
\* and record terminators, the last line being a terminator if there is a record
WellFormed(text) ==
    /\ \E i \in DOMAIN text : text[i].k = "tn"
    /\ \A i \in DOMAIN text : text[i].k \in {"comment", "tn", "entry", "eor"}
    /\ \A i \in DOMAIN text : text[i].k = "entry" => \E j \in DOMAIN text : j > i /\ text[j].k = "eor"

\* C8: for every well-formed tracefile X and Streams with no handlers
\* installed, load(save(load(X))) equals load(X): the same stream test name,
\* the same records keyed by source file in the same order, and for each
\* record the same prefix order and the same ordered payload list per prefix.
C8_RoundTrip ==
    (pc = "reloaded" /\ WellFormed(inputs[1])) => (exc = NoExc /\ SameContent(base, snap))

-----------------------------------------------------------------------------
(* The waive command (waive.py main): the waivers are read, the Stream is  *)
(* configured, the input is loaded and the result saved.                   *)

\* ExplicitWaivers.__init__.get_or_default on a CSV row (l[index] is 0-based)
get_or_default(l, index, min_len) ==
    IF Len(l) >= min_len THEN l[index + 1] ELSE 0

Exclude(row) ==
    [line_start |-> get_or_default(row, 1, 3),
     line_end |-> get_or_default(row, 2, 3),
     group_start |-> get_or_default(row, 3, 5),
     group_end |-> get_or_default(row, 4, 5)]

RECURSIVE ExplicitWaivers(_)
\* ExplicitWaivers.__init__: the excluded dict read from the rows of the CSV
\* file, keyed like Record.source_file (the payload of the SF line)
ExplicitWaivers(rows) ==
    IF rows = <<>> THEN EmptyMap
    ELSE Put(ExplicitWaivers(SubSeq(rows, 1, Len(rows) - 1)),
             <<rows[Len(rows)][1]>>,
             Append(Get(ExplicitWaivers(SubSeq(rows, 1, Len(rows) - 1)),
                        <<rows[Len(rows)][1]>>, <<>>),
                    Exclude(rows[Len(rows)])))

\* waive.py main, lines 96-105
WaiveStream(waivers) ==
    install_category_handler(
      install_category_handler(
        install_category_handler(
          install_category_handler(
            install_category_handler([Stream("SF") EXCEPT !.waivers = waivers],
                                     <<"BRDA", "DA">>, H("filter_waivers")),
            <<"BRF">>, HA("count_restore", "BRDA")),
          <<"BRH">>, HA("hit_count_restore", "BRDA")),
        <<"LF">>, HA("count_restore", "DA")),
      <<"LH">>, HA("hit_count_restore", "DA"))

\* the rows of the waiver files
WaiverFiles ==
    { <<>>,
      << <<"a", 1, 1>> >>,
      << <<"a">> >>,
      << <<"a", 1, 2, 1, 1>> >>,
      << <<"b", 2, 3>>, <<"a", 1, 1, 0, 0>>, <<"b", 1, 1, 0, 0>> >> }

WaiveDAParts ==
    { <<DA(1, 1), DA(2, 1)>>,
      <<DA(1, 0), DA(3, 2), DA(2, 0)>> }

WaiveBRDAParts ==
    { <<>>,
      <<BRDA(1, 0, "a", 1), BRDA(1, 1, "a", 0), BRDA(2, 0, "a", 1)>> }

WaiveInputs ==
    { \* the order lcov writes: the summary counts follow the entries they count
      <<TnLine("t")>> \o
      Block(path, brda \o <<Misc("BRF", Len(brda)), Misc("BRH", 9)>>
                  \o da \o <<Misc("LF", Len(da)), Misc("LH", 9)>>) :
        path \in {"a", "b"}, da \in WaiveDAParts, brda \in WaiveBRDAParts }
    \cup
    { \* the summary counts come first
      <<TnLine("t")>> \o
      Block(path, <<Misc("LF", Len(da)), Misc("LH", 9), Misc("BRF", Len(brda)), Misc("BRH", 9)>>
                  \o da \o brda) :
        path \in {"a", "b"}, da \in WaiveDAParts, brda \in WaiveBRDAParts }
    \cup
    { \* two records, one without summary counts
      <<TnLine("t")>> \o Block("b", <<DA(1, 1)>>)
                      \o Block("a", <<DA(1, 1), DA(2, 0), Misc("LH", 9), Misc("BRF", 9)>>),
      \* payloads Record._update_stats accepts and split_da, split_brda do not:
      \* DA:2,1,3 and BRDA:1,0,2
      <<TnLine("t")>> \o Block("a", <<DA(1, 1), EntryLine("DA", <<2, 1, 3>>)>>),
      <<TnLine("t")>> \o Block("b", <<EntryLine("BRDA", <<1, 0, 2>>), DA(1, 1)>>) }

\* the output file before the command runs: the input itself when the
\* command runs in place, absent otherwise
WaiveOutputs == {<<>>} \cup WaiveInputs

WaiveInit ==
    /\ pc = "start"
    /\ stream \in {WaiveStream(ExplicitWaivers(rows)) : rows \in WaiverFiles}
    /\ base = Stream("SF")
    /\ inputs = <<>>
    /\ out \in WaiveOutputs
    /\ exc = NoExc
    /\ snap = Stream("SF")
    /\ labels = <<>>
    /\ test_list = <<>>

\* waive.py main, lines 107-108
WaiveLoad(text) ==
    /\ pc = "start"
    /\ out # <<>> => text = out
    /\ \E r \in {load(stream, text)} :
          /\ stream' = r.stream
          /\ snap' = r.stream
          /\ exc' = r.exc
    /\ inputs' = <<text>>
    /\ pc' = "loaded"
    /\ UNCHANGED <<base, out, labels, test_list>>

\* waive.py main, lines 110-111: the output file is opened for writing,
\* which empties it, and Stream.save writes str(stream) to it
WaiveSave ==
    /\ pc = "loaded"
    /\ exc = NoExc
    /\ \E r \in {StreamStr(stream)} :
          /\ stream' = r.stream
          /\ exc' = r.exc
          /\ out' = IF r.exc = NoExc THEN r.text ELSE <<>>
    /\ pc' = "saved"
    /\ UNCHANGED <<base, inputs, snap, labels, test_list>>

WaiveNext ==
    \/ \E text \in WaiveInputs : WaiveLoad(text)
    \/ WaiveSave

SpecWaive == WaiveInit /\ [][WaiveNext]_vars

-----------------------------------------------------------------------------
(* Claims about the restored counts, checked under SpecWaive *)

\* the number of entries of prefix in a block of saved text, and the number
\* of those with a positive hit count
Emitted(block, prefix) == Len(SelectSeq(block, LAMBDA l : l.p = prefix))
EmittedHit(block, prefix) == Len(SelectSeq(block, LAMBDA l : l.p = prefix /\ Covered(l.d)))

\* C3: in the text saved by a Stream with the count-restore category
\* handlers installed, for every Record that emits BRF/BRH/LF/LH the emitted
\* BRF equals the number of BRDA entries emitted for that Record and BRH the
\* number of those with hit count > 0, and LF/LH likewise over the emitted DA
\* entries, whatever a filtering category handler removed and whatever order
\* the prefixes first appeared in.
C3_CountsMatchEmittedEntries ==
    (pc = "saved" /\ exc = NoExc) =>
        \A block \in Range(BlocksOf(out, <<>>)) : \A l \in Range(block) :
            /\ l.p = "BRF" => l.d[1] = Emitted(block, "BRDA")
            /\ l.p = "BRH" => l.d[1] = EmittedHit(block, "BRDA")
            /\ l.p = "LF" => l.d[1] = Emitted(block, "DA")
            /\ l.p = "LH" => l.d[1] = EmittedHit(block, "DA")

-----------------------------------------------------------------------------
(* The merge command with --test-list (merge.py main and create_test_list): *)
(* every input is merged with the test name derived from its path, the     *)
(* merged Stream is saved and the test list is written.  A TEST payload is *)
(* <<line, tests>>, tests being the ';'-separated names as a sequence.     *)

\* the test names the inputs are merged with, in the order of Python's
\* string comparison
TestNames == <<"t1", "t2">>

\* sorted(test_files)
SortedTests(test_files) == SelectSeq(TestNames, LAMBDA t : t \in test_files)

RECURSIVE SortedLines(_)
\* sorted(merged.keys())
SortedLines(lines) ==
    IF lines = {} THEN <<>>
    ELSE <<CHOOSE l \in lines : \A m \in lines : l <= m>>
         \o SortedLines(lines \ {CHOOSE l \in lines : \A m \in lines : l <= m})

\* create_test_list, lines 95-104: the dict `merged` of one Record; the first
\* definition is the faulty variant that looks at the DA entries only
MergedTestFiles_da_only(da, brda) == da

MergedTestFiles(da, brda) ==
    [line \in DOMAIN da \cup DOMAIN brda |-> Get(da, line, {}) \cup Get(brda, line, {})]

RECURSIVE TestEntries(_, _)
\* create_test_list, lines 107-113
TestEntries(merged, lines) ==
    IF lines = <<>> THEN <<>>
    ELSE (IF merged[Head(lines)] = {} THEN <<>>
          ELSE <<EntryLine("TEST", <<Head(lines), SortedTests(merged[Head(lines)])>>)>>)
         \o TestEntries(merged, Tail(lines))

TestListOfMerged(record, merged) ==
    <<EntryLine("SN", record.source_file)>> \o TestEntries(merged, SortedLines(DOMAIN merged))
    \o <<EorLine>>

\* create_test_list, the body of the loop over the records
TestListOfRecord(record) ==
    TestListOfMerged(record, MergedTestFiles(Get(record.line_info, "DA", EmptyMap),
                                             Get(record.line_info, "BRDA", EmptyMap)))

RECURSIVE TestListOfRecords(_, _)
TestListOfRecords(records, i) ==
    IF i > Len(records) THEN <<>>
    ELSE TestListOfRecord(records[i]) \o TestListOfRecords(records, i + 1)

\* merge.py create_test_list: the text written to out
create_test_list(s) == <<TnLine("test_coverage")>> \o TestListOfRecords(s.records, 1)

TestListInputs ==
    { <<TnLine("t")>> \o Block(path, entries) :
        path \in {"f", "g"},
        entries \in { <<DA(2, 1), DA(1, 0), BRDA(1, 0, "a", 0)>>,
                      <<DA(1, 0), BRDA(1, 0, "a", 2), DA(3, 0)>>,
                      <<DA(3, 1), DA(2, 0)>> } }
    \cup
    { \* two records of one source file in one text, the second after another file's
      <<TnLine("t")>> \o Block("f", <<DA(1, 0)>>) \o Block("g", <<DA(2, 0), BRDA(4, 0, "a", 1)>>)
                      \o Block("f", <<DA(1, 1), DA(5, 0)>>) }

\* merge.py main, lines 203-210, with a test list asked for
MergeLabelled(text, test_name) ==
    /\ pc = "merging"
    /\ exc = NoExc
    /\ Len(inputs) < MaxMerges
    /\ \E r \in {merge(stream, text, test_name)} :
          /\ stream' = r.stream
          /\ exc' = r.exc
    /\ inputs' = Append(inputs, text)
    /\ labels' = Append(labels, test_name)
    /\ UNCHANGED <<pc, base, out, snap, test_list>>

\* merge.py main, lines 216-219
WriteTestList ==
    /\ pc = "saved"
    /\ exc = NoExc
    /\ labels # <<>>
    /\ test_list' = create_test_list(stream)
    /\ pc' = "listed"
    /\ UNCHANGED <<stream, base, inputs, out, exc, snap, labels>>

TestListNext ==
    \/ \E text \in TestListInputs, test_name \in Range(TestNames) : MergeLabelled(text, test_name)
    \/ SaveMerged
    \/ WriteTestList

SpecTestList == MergeInit /\ [][TestListNext]_vars

-----------------------------------------------------------------------------
(* Claims about the test list, checked under SpecTestList *)

\* the position of a test name in the order of the names
TestRank(test_name) == CHOOSE i \in DOMAIN TestNames : TestNames[i] = test_name

\* the hit count of a DA or BRDA entry line: its last field
HitsOf(l) == l.d[Len(l.d)]

\* the inputs (by position) in which a block of source_file holds a DA or
\* BRDA entry for the line with a hit count above zero
CoveringInputs(source_file, line) ==
    { i \in DOMAIN inputs :
        \E b \in Range(BlocksOf(inputs[i], <<>>)) :
            /\ BlockSource(b) = source_file
            /\ \E l \in Range(b) : l.p \in {"DA", "BRDA"} /\ l.d[1] = line /\ HitsOf(l) > 0 }

\* the lines source_file has a DA or BRDA entry for in some input
ListedLines(source_file) ==
    { l.d[1] : l \in { l \in UNION { Range(b) : b \in { b \in UNION { Range(BlocksOf(inputs[i], <<>>)) : i \in DOMAIN inputs } :
                                                         BlockSource(b) = source_file } } :
                       l.p \in {"DA", "BRDA"} } }

\* the TEST entries of one block of the test list
TestsOf(block) == SelectSeq(block, LAMBDA l : l.p = "TEST")

SourceOfTests(block) == (CHOOSE l \in Range(block) : l.p = "SN").d

\* C11: the test list has one block per Record of the merged Stream; the
\* block's TEST entries are in ascending line order, there is one for
\* exactly the lines that some labelled input covers with a DA or BRDA hit
\* count above zero, and it lists, sorted, exactly the labels of those inputs
C11_TestListNamesCoveringInputs ==
    pc = "listed" =>
        LET blocks == BlocksOf(test_list, <<>>)
        IN /\ Len(blocks) = Len(stream.records)
           /\ \A k \in DOMAIN blocks :
                LET source_file == stream.records[k].source_file
                    tests == TestsOf(blocks[k])
                IN /\ SourceOfTests(blocks[k]) = source_file
                   /\ \A i, j \in DOMAIN tests : i < j => tests[i].d[1] < tests[j].d[1]
                   /\ {tests[i].d[1] : i \in DOMAIN tests}
                        = {line \in ListedLines(source_file) : CoveringInputs(source_file, line) # {}}
                   /\ \A i \in DOMAIN tests :
                        LET names == tests[i].d[2]
                        IN /\ \A a, b \in DOMAIN names : a < b => TestRank(names[a]) < TestRank(names[b])
                           /\ Range(names) = {labels[n] : n \in CoveringInputs(source_file, tests[i].d[1])}

\* a test list with a line that two inputs with different labels cover, a
\* line that only a BRDA entry covers and a line whose hit counts are all zero
C11_Witness ==
    /\ pc = "listed"
    /\ \E b \in Range(BlocksOf(test_list, <<>>)) :
          /\ \E l \in Range(TestsOf(b)) : Len(l.d[2]) = 2
          /\ \E l \in Range(TestsOf(b)) :
                \A n \in CoveringInputs(SourceOfTests(b), l.d[1]) :
                    \A e \in Range(inputs[n]) :
                        (e.k = "entry" /\ e.p = "DA" /\ e.d[1] = l.d[1]) => HitsOf(e) = 0
          /\ \E line \in ListedLines(SourceOfTests(b)) :
                \A l \in Range(TestsOf(b)) : l.d[1] # line

\* merging the texts with their test names, in order, into a fresh
\* merge-configured Stream
RECURSIVE MergeAllLabelled(_, _, _)
MergeAllLabelled(r, texts, test_names) ==
    IF texts = <<>> \/ r.exc # NoExc THEN r
    ELSE MergeAllLabelled(merge(r.stream, Head(texts), Head(test_names)),
                          Tail(texts), Tail(test_names))

\* the test list the command writes for the texts merged in the given order
TestListFor(texts, test_names) ==
    create_test_list(
        StreamStr(MergeAllLabelled([stream |-> MergeStream, exc |-> NoExc],
                                   texts, test_names).stream).stream)

\* C12: merging A then B and merging B then A, each with its own label, give
\* the same test-list text: same record order, same lines, same label order
C12_TestListOrderIndependent ==
    (pc = "listed" /\ Len(inputs) = 2) =>
        test_list = TestListFor(<<inputs[2], inputs[1]>>, <<labels[2], labels[1]>>)

-----------------------------------------------------------------------------
(* The Stream used as a library (parser.py Stream.load, Stream.merge and    *)
(* Stream.save): a configured Stream reads texts one after the other, each *)
(* with load or with merge, and is saved.  labels holds, per text read,    *)
(* the test_file passed to _get_record_lines: None for load, the test file *)
(* path for merge.  snap is the Stream as it was before the last call.     *)

MaxReads == 2

\* the configurations of the Stream
EngineStreams ==
    { Stream("SF"),
      \* two entry handlers for one prefix, the first returning a list
      install_handler(install_handler(Stream("SF"), <<"DA">>, H("copy_to_next_line")),
                      <<"DA">>, H("skip_line_two")),
      install_handler(install_handler(Stream("SF"), <<"DA">>, H("skip_line_two")),
                      <<"DA">>, H("copy_to_next_line")),
      \* transform --filter f and transform --filter-out f
      install_handler(Stream("SF"), <<"SF">>, HA("filter", "f")),
      install_handler(Stream("SF"), <<"SF">>, HA("filter_out", "f")),
      \* transform --set-block-ids --add-two-way-toggles, with two generic
      \* category handlers
      install_generic_category_handler(
          install_generic_category_handler(
              install_category_handler(
                  install_category_handler(Stream("SF"), <<"BRDA">>, H("block_ids")),
                  <<"BRDA">>, H("two_way_toggle")),
              H("keep_first_two")),
          H("newest_first")) }

EngineInputs ==
    { <<TnLine("a")>> \o Block("f", <<DA(1, 1), DA(2, 0)>>),
      <<TnLine("b")>> \o Block("g", <<DA(1, 2)>>) \o Block("f", <<DA(3, 1)>>),
      \* a record that is not terminated, after a complete one and alone
      <<TnLine("a")>> \o Block("f", <<DA(1, 1)>>) \o <<SF("g"), DA(2, 1)>>,
      <<TnLine("b"), SF("f"), DA(1, 1)>>,
      \* no TN line; an empty one; a second one after a record
      <<CommentLine>> \o Block("g", <<DA(2, 1)>>),
      <<TnLine("")>> \o Block("f", <<DA(2, 2)>>),
      <<TnLine("b")>> \o Block("f", <<DA(4, 1)>>) \o <<TnLine("a")>> \o Block("g", <<DA(4, 0)>>),
      \* three records, the SF line of the second after one of its entries
      <<TnLine("a")>> \o Block("f", <<DA(1, 1)>>) \o <<DA(1, 2), SF("g"), DA(2, 1), EorLine>>
                      \o Block("f", <<DA(3, 0)>>),
      \* BRDA entries, two of them for one line
      <<TnLine("a")>> \o Block("f", <<BRDA(1, 5, "a", 1), DA(1, 1), BRDA(1, 7, "b", 0),
                                      BRDA(2, 0, "a", 1), DA(2, 0), DA(3, 1)>>) }

EngineInit ==
    /\ pc = "ready"
    /\ stream \in EngineStreams
    /\ base = Stream("SF")
    /\ inputs = <<>>
    /\ out = <<>>
    /\ exc = NoExc
    /\ snap = Stream("SF")
    /\ labels = <<>>
    /\ test_list = <<>>

\* Stream.load
EngineLoad(text) ==
    /\ pc \in {"ready", "loaded", "merged"}
    /\ exc = NoExc
    /\ Len(inputs) < MaxReads
    /\ \E r \in {load(stream, text)} :
          /\ stream' = r.stream
          /\ exc' = r.exc
    /\ snap' = stream
    /\ inputs' = Append(inputs, text)
    /\ labels' = Append(labels, None)
    /\ pc' = "loaded"
    /\ UNCHANGED <<base, out, test_list>>

\* Stream.merge
EngineMerge(text, test_file_path) ==
    /\ pc \in {"ready", "loaded", "merged"}
    /\ exc = NoExc
    /\ Len(inputs) < MaxReads
    /\ \E r \in {merge(stream, text, test_file_path)} :
          /\ stream' = r.stream
          /\ exc' = r.exc
    /\ snap' = stream
    /\ inputs' = Append(inputs, text)
    /\ labels' = Append(labels, test_file_path)
    /\ pc' = "merged"
    /\ UNCHANGED <<base, out, test_list>>

\* Stream.save
EngineSave ==
    /\ pc \in {"loaded", "merged"}
    /\ exc = NoExc
    /\ \E r \in {StreamStr(stream)} :
          /\ stream' = r.stream
          /\ exc' = r.exc
          /\ out' = IF r.exc = NoExc THEN r.text ELSE <<>>
    /\ snap' = stream
    /\ pc' = "saved"
    /\ UNCHANGED <<base, inputs, labels, test_list>>

EngineNext ==
    \/ \E text \in EngineInputs : EngineLoad(text)
    \/ \E text \in EngineInputs : EngineMerge(text, "t1")
    \/ EngineSave

SpecEngine == EngineInit /\ [][EngineNext]_vars

-----------------------------------------------------------------------------
(* Claims about the Stream, checked under SpecEngine *)

\* the text ends with entry lines that no end_of_record line follows
Unterminated(text) ==
    /\ text # <<>>
    /\ text[Len(text)].k = "entry"

\* C13: a load or merge of a text that ends with entry lines not followed by
\* an end_of_record line fails with an error
C13_UnterminatedRecordIsAnError ==
    (pc \in {"loaded", "merged"} /\ Unterminated(inputs[Len(inputs)])) => exc # NoExc

-----------------------------------------------------------------------------
(* Claims about the output file, checked under SpecWaive *)

\* C14: when waive runs in place and a step fails, a category handler during
\* serialization included, the file still has its original contents
C14_InPlaceFileKeptOnFailure ==
    [][(out # <<>> /\ exc' # NoExc) => out' = out]_vars

\* what one handler yields for one payload on its own: nothing for None
OutputsOf(handler, prefix, data) ==
    LET r == EntryHandler(handler, prefix, data, Ctx(Stream("SF"), Record(0, "SF")))
    IN IF r.ret.none THEN <<>> ELSE r.ret.vals

RECURSIVE Composed(_, _, _, _)
\* handlers k.. applied stage by stage, each to every output of the stage
\* before it, the results concatenated in order
Composed(handlers, k, prefix, outputs) ==
    IF k > Len(handlers) THEN outputs
    ELSE Composed(handlers, k + 1, prefix,
                  Flatten([i \in DOMAIN outputs |-> OutputsOf(handlers[k], prefix, outputs[i])]))

\* the entry handlers whose result depends on the payload alone
PureEntryHandlers == {"copy_to_next_line", "skip_line_two"}

\* C15: the entries added for an entry that passes through the handlers
\* h1..hn of its prefix are the in-order concatenation of applying h(k+1) to
\* each output of h(k) on its own; an output for which h(k+1) returns nothing
\* does not take the results of the other outputs with it
C15_HandlerOutputsFeedNextStageIndependently ==
    (/\ pc = "loaded" /\ Len(inputs) = 1 /\ exc = NoExc
     /\ "DA" \in DOMAIN stream.handlers
     /\ \A i \in DOMAIN stream.handlers["DA"] : stream.handlers["DA"][i].h \in PureEntryHandlers)
    => \A source_file \in {BlockSource(b) : b \in Range(BlocksOf(inputs[1], <<>>))} :
          LET added == IngestedBy(inputs, source_file, "DA")
          IN /\ RecordIndex(stream.records, source_file) > 0
             /\ ListOf(stream.records[RecordIndex(stream.records, source_file)], "DA")
                  = Flatten([i \in DOMAIN added |->
                                Composed(stream.handlers["DA"], 1, "DA", <<added[i]>>)])

\* a handler installed for SF raises RemoveRecord for an SF entry of the block
Removed(block) ==
    /\ "SF" \in DOMAIN stream.handlers
    /\ \E l \in Range(block), h \in Range(stream.handlers["SF"]) :
          /\ l.p = "SF"
          /\ EntryHandler(h, "SF", l.d, Ctx(Stream("SF"), Record(0, "SF"))).ctx.exc = "RemoveRecord"

\* the blocks of the texts read, in reading order, without the removed ones
KeptBlocks ==
    SelectSeq(Flatten([i \in DOMAIN inputs |-> BlocksOf(inputs[i], <<>>)]),
              LAMBDA b : ~Removed(b))

\* C16: when an entry handler raises RemoveRecord during Stream.load, the
\* load goes on and the Stream holds exactly the records of the other blocks
\* with their entries, and no entry of the removed block; during Stream.merge
\* the exception ends the merge
C16_RemoveRecordDropsOneRecordOnLoad ==
    /\ (/\ pc = "loaded" /\ "SF" \in DOMAIN stream.handlers
        /\ \A i \in DOMAIN labels : labels[i] = None)
       => /\ exc = NoExc
          /\ {stream.records[i].source_file : i \in DOMAIN stream.records}
               = {BlockSource(b) : b \in Range(KeptBlocks)}
          /\ \A i \in DOMAIN stream.records : \A prefix \in {"SF", "DA"} :
                ListOf(stream.records[i], prefix)
                  = Ingested(KeptBlocks, stream.records[i].source_file, prefix)
    /\ (/\ pc = "merged"
        /\ \E b \in Range(BlocksOf(inputs[Len(inputs)], <<>>)) : Removed(b))
       => exc = "RemoveRecord"

\* a load in which the removed block had an entry added before its SF line
\* and stands between two blocks that are kept, and a merge of such a text
C16_Witness ==
    /\ pc = "loaded" /\ Len(inputs) = 1 /\ Len(stream.records) = 1
    /\ LET blocks == BlocksOf(inputs[1], <<>>)
       IN /\ Len(blocks) = 3
          /\ Removed(blocks[2]) /\ blocks[2][1].p = "DA"
          /\ ~Removed(blocks[1]) /\ ~Removed(blocks[3])

\* the Stream of transform --set-block-ids --add-two-way-toggles with the two
\* generic category handlers, and what its handlers make of a stored list:
\* the BRDA handlers in install order, then the generic ones in install order
Piped(prefix, stored) ==
    LET category == IF prefix = "BRDA"
                    THEN two_way_toggle_handler(prefix,
                             create_block_ids_handler(set_block_ids_step, prefix, stored, <<>>).data,
                             <<>>).data
                    ELSE stored
    IN newest_first(prefix, keep_first_two(prefix, category, <<>>).data, <<>>).data

\* the payloads of prefix in a block of saved text
EmittedOf(block, prefix) ==
    LET here == SelectSeq(block, LAMBDA l : l.p = prefix)
    IN [i \in DOMAIN here |-> here[i].d]

\* C17: on save the stored list of each prefix of each Record goes through
\* the prefix's category handlers in install order, then through the generic
\* category handlers in install order, each given the output of the one
\* before; the last output is emitted and replaces the stored list.  Load
\* and merge run no category handler: the stored lists are the payloads read.
C17_CategoryHandlersRunInOrderOnSave ==
    stream.generic_category_handlers # <<>> =>
        /\ (pc = "saved" /\ exc = NoExc) =>
              /\ Len(BlocksOf(out, <<>>)) = Len(snap.records)
              /\ \A i \in DOMAIN snap.records :
                    \A prefix \in Range(snap.records[i].prefix_order) :
                        /\ ListOf(stream.records[i], prefix)
                             = Piped(prefix, ListOf(snap.records[i], prefix))
                        /\ EmittedOf(BlocksOf(out, <<>>)[i], prefix)
                             = Piped(prefix, ListOf(snap.records[i], prefix))
        /\ (pc \in {"loaded", "merged"} /\ exc = NoExc) =>
              \A i \in DOMAIN stream.records : \A prefix \in {"SF", "DA", "BRDA"} :
                    ListOf(stream.records[i], prefix)
                      = IngestedBy(inputs, stream.records[i].source_file, prefix)

\* a save of a Record with two BRDA entries for one line and a third entry:
\* the block ids differ with the order of the two BRDA handlers, and the
\* entries kept differ with the order of the two generic handlers
C17_Witness ==
    /\ pc = "saved" /\ exc = NoExc
    /\ stream.generic_category_handlers # <<>>
    /\ \E i \in DOMAIN snap.records :
          LET stored == ListOf(snap.records[i], "BRDA")
          IN /\ Len(stored) >= 3
             /\ stored[1][1] = stored[2][1]
             /\ Len(ListOf(stream.records[i], "BRDA")) = 2
             /\ Len(ListOf(snap.records[i], "DA")) >= 3

-----------------------------------------------------------------------------
(* Claims about the order of the merged output, checked under SpecMerge *)

\* emitted is accumulated in non-decreasing order of the key, the entries
\* of equal keys in the order they have in accumulated
SortedStably(emitted, accumulated, key(_)) ==
    /\ Len(emitted) = Len(accumulated)
    /\ \A i, j \in DOMAIN emitted :
          i < j => (key(emitted[i]) = key(emitted[j]) \/ KeyLess(key(emitted[i]), key(emitted[j])))
    /\ \A e \in Range(accumulated) :
          SelectSeq(emitted, LAMBDA x : key(x) = key(e))
            = SelectSeq(accumulated, LAMBDA x : key(x) = key(e))

DAKey(entry) == <<entry[1]>>
BRDAKey(entry) == <<entry[1], entry[2]>>

\* C18: in the text the merge command saves, the DA entries of every record
\* are the accumulated DA entries in non-decreasing line order and the BRDA
\* entries the accumulated BRDA entries in non-decreasing (line, block)
\* order, entries of equal keys in accumulation order
C18_MergedOutputIsSortedStably ==
    (pc = "saved" /\ exc = NoExc) =>
        /\ Len(BlocksOf(out, <<>>)) = Len(snap.records)
        /\ \A i \in DOMAIN snap.records :
              /\ SortedStably(EmittedOf(BlocksOf(out, <<>>)[i], "DA"),
                              ListOf(snap.records[i], "DA"), DAKey)
              /\ SortedStably(EmittedOf(BlocksOf(out, <<>>)[i], "BRDA"),
                              ListOf(snap.records[i], "BRDA"), BRDAKey)

\* a saved record whose accumulated DA entries were out of line order and
\* whose accumulated BRDA entries were out of order with two of them of one
\* line and block, and a block that decreases within a line
C18_Witness ==
    /\ pc = "saved" /\ exc = NoExc
    /\ \E i \in DOMAIN snap.records :
          LET da == ListOf(snap.records[i], "DA")
              brda == ListOf(snap.records[i], "BRDA")
          IN /\ \E a, b \in DOMAIN da : a < b /\ da[a][1] > da[b][1]
             /\ \E a, b \in DOMAIN brda : a < b /\ brda[a][1] > brda[b][1]
             /\ \E a, b \in DOMAIN brda : a < b /\ BRDAKey(brda[a]) = BRDAKey(brda[b])
             /\ \E a, b \in DOMAIN brda : a < b /\ brda[a][1] = brda[b][1] /\ brda[a][2] > brda[b][2]

-----------------------------------------------------------------------------
(* merge.py sort_brda_names on its own: the handler is given a list of     *)
(* BRDA payloads and returns it sorted.                                    *)

MaxNames == 3

\* the BRDA payloads the lists are made of
NamedEntries ==
    { <<1, 0, "toggle_2_0", 1>>,
      <<1, 1, "toggle_10_1", 0>>,
      <<1, 0, "toggle_1_0", 1>>,
      <<1, 2, "toggle_01_0", 1>>,
      <<2, 0, "a-1", 1>>,
      <<2, 0, "a_", 0>>,
      <<1, 0, "x99999999999999999999", 1>>,
      <<1, 0, "x100000000000000000000", 1>> }

NamedLists == UNION { [1..n -> NamedEntries] : n \in 0..MaxNames }

SortNamesInit ==
    /\ pc = "start"
    /\ stream = Stream("SF")
    /\ base = Stream("SF")
    /\ inputs = <<>>
    /\ out = <<>>
    /\ exc = NoExc
    /\ snap = Stream("SF")
    /\ labels = <<>>
    /\ test_list = <<>>

\* Record.__str__, line 194, with sort_brda_names as the handler
SortNames(entries) ==
    /\ pc = "start"
    /\ \E r \in {sort_brda_names("BRDA", entries, <<>>)} :
          /\ out' = r.data
          /\ exc' = r.exc
    /\ inputs' = <<entries>>
    /\ pc' = "sorted"
    /\ UNCHANGED <<stream, base, snap, labels, test_list>>

SortNamesNext == \E entries \in NamedLists : SortNames(entries)

SpecSortNames == SortNamesInit /\ [][SortNamesNext]_vars

-----------------------------------------------------------------------------
(* Claims about the order by names, checked under SpecSortNames *)

IsDigitChar(c) == c \in {"0", "1", "2", "3", "4", "5", "6", "7", "8", "9"}

RECURSIVE DigitRun(_, _)
\* the maximal run of digits of name that starts at position i
DigitRun(name, i) ==
    IF i > Len(name) \/ ~IsDigitChar(Char(name, i)) THEN ""
    ELSE Char(name, i) \o DigitRun(name, i + 1)

RECURSIVE Significant(_)
\* a run of digits without its leading zeros
Significant(run) ==
    IF run # "" /\ Char(run, 1) = "0" THEN Significant(SubSeq(run, 2, Len(run))) ELSE run

RECURSIVE DigitsLess(_, _)
\* two runs of equal length, digit by digit
DigitsLess(a, b) ==
    IF a = "" THEN FALSE
    ELSE IF Char(a, 1) # Char(b, 1) THEN ord(Char(a, 1)) < ord(Char(b, 1))
    ELSE DigitsLess(SubSeq(a, 2, Len(a)), SubSeq(b, 2, Len(b)))

\* the number a is less than the number b
NumberLess(a, b) ==
    \/ Len(Significant(a)) < Len(Significant(b))
    \/ /\ Len(Significant(a)) = Len(Significant(b))
       /\ DigitsLess(Significant(a), Significant(b))

RECURSIVE NaturalLess(_, _, _, _)
\* name a from position i on comes before name b from position j on: runs
\* of digits are compared as numbers, other characters by code point
NaturalLess(a, i, b, j) ==
    IF j > Len(b) THEN FALSE
    ELSE IF i > Len(a) THEN TRUE
    ELSE IF IsDigitChar(Char(a, i)) /\ IsDigitChar(Char(b, j))
         THEN IF NumberLess(DigitRun(a, i), DigitRun(b, j)) THEN TRUE
              ELSE IF NumberLess(DigitRun(b, j), DigitRun(a, i)) THEN FALSE
              ELSE NaturalLess(a, i + Len(DigitRun(a, i)), b, j + Len(DigitRun(b, j)))
    ELSE IF Char(a, i) = Char(b, j) THEN NaturalLess(a, i + 1, b, j + 1)
    ELSE ord(Char(a, i)) < ord(Char(b, j))

\* the order of the claim on BRDA payloads: the line, then the name
ByLineThenName(x, y) ==
    \/ x[1] < y[1]
    \/ x[1] = y[1] /\ NaturalLess(x[3], 1, y[3], 1)

SameRank(x, y) == ~ByLineThenName(x, y) /\ ~ByLineThenName(y, x)

\* a name holds a number of more than FILL_SIZE digits, 10^20 or more
HasHugeNumber(entries) ==
    \E e \in Range(entries) : \E i \in 1..Len(e[3]) :
        /\ Char(e[3], i) \in {"1", "2", "3", "4", "5", "6", "7", "8", "9"}
        /\ Len(DigitRun(e[3], i)) > 20

\* C19: sort_brda_names returns the entries ordered by line, then by name
\* with runs of digits compared as numbers and other characters by code
\* point, entries of equal rank in their given order; toggle_2_0,
\* toggle_10_1, toggle_1_0 come out as toggle_1_0, toggle_2_0, toggle_10_1;
\* a name with a number of 10^20 or more makes the sort fail
C19_NamesSortedWithNumbersAsNumbers ==
    pc = "sorted" =>
        IF HasHugeNumber(inputs[1]) THEN exc = "AssertionError"
        ELSE /\ exc = NoExc
             /\ Len(out) = Len(inputs[1])
             /\ \A i, j \in DOMAIN out : i < j => ~ByLineThenName(out[j], out[i])
             /\ \A e \in Range(inputs[1]) :
                   SelectSeq(out, LAMBDA x : SameRank(x, e))
                     = SelectSeq(inputs[1], LAMBDA x : SameRank(x, e))
             /\ inputs[1] = << <<1, 0, "toggle_2_0", 1>>, <<1, 1, "toggle_10_1", 0>>,
                               <<1, 0, "toggle_1_0", 1>> >>
                => out = << <<1, 0, "toggle_1_0", 1>>, <<1, 0, "toggle_2_0", 1>>,
                            <<1, 1, "toggle_10_1", 0>> >>

\* the three names of the example sorted, 10 after 2
C19_Witness ==
    /\ pc = "sorted" /\ exc = NoExc
    /\ inputs[1] = << <<1, 0, "toggle_2_0", 1>>, <<1, 1, "toggle_10_1", 0>>,
                      <<1, 0, "toggle_1_0", 1>> >>
    /\ out[3][3] = "toggle_10_1"

-----------------------------------------------------------------------------
(* Claims about the test name, checked under SpecEngine *)

\* the TN lines of the texts read, in reading order
TNLines == SelectSeq(Flatten(inputs), LAMBDA l : l.k = "tn")

\* the payload of the first TN line read, None when there is none
FirstTestName == IF TNLines = <<>> THEN None ELSE TNLines[1].d[1]

\* C20: after any sequence of loads and merges on one Stream its test name
\* is the payload of the first TN line read and no later TN line changes
\* it; no TN line is stored as an entry; the saved text has exactly one TN
\* line, its first line, with that name
C20_FirstTestNameWins ==
    /\ [](/\ stream.test_name \in {None, FirstTestName}
          /\ exc = NoExc => stream.test_name = FirstTestName
          /\ \A i \in DOMAIN stream.records : "TN" \notin DOMAIN stream.records[i].lines_per_prefix
          /\ (pc = "saved" /\ exc = NoExc) =>
                /\ out[1] = TnLine(IF FirstTestName = None THEN "" ELSE FirstTestName)
                /\ \A i \in 2..Len(out) : out[i].k # "tn" /\ out[i].p # "TN")
    /\ [][stream.test_name # None => stream'.test_name = stream.test_name]_vars

\* a saved Stream that read two texts with different TN lines, the second
\* text with two of them
C20_Witness ==
    /\ pc = "saved" /\ exc = NoExc /\ Len(inputs) = 2
    /\ Len(TNLines) = 3
    /\ TNLines[1].d[1] = "a" /\ TNLines[2].d[1] = "b" /\ TNLines[3].d[1] = "a"
    /\ out[1] = TnLine("a")
    /\ Len(stream.records) = 2

-----------------------------------------------------------------------------
(* transform.py main: a Stream configured from the arguments loads the     *)
(* input and saves it to the output.                                       *)

RECURSIVE InstallAll(_, _, _, _)
\* `for x in xs: stream.install_handler(['SF'], make(x))`
InstallAll(s, h, xs, i) ==
    IF i > Len(xs) THEN s
    ELSE InstallAll(install_handler(s, <<"SF">>, HA(h, xs[i])), h, xs, i + 1)

TransformStream_counts(s) ==
    install_category_handler(
      install_category_handler(
        install_category_handler(
          install_category_handler(s, <<"BRF">>, HA("count_restore", "BRDA")),
          <<"BRH">>, HA("hit_count_restore", "BRDA")),
        <<"LF">>, HA("count_restore", "DA")),
      <<"LH">>, HA("hit_count_restore", "DA"))

TransformStream_entries(args, s) ==
    TransformStream_counts(
        IF args.normalize_hit_counts
        THEN install_handler(
                 IF args.add_missing_brda_entries
                 THEN install_handler(s, <<"DA">>, H("missing_brda")) ELSE s,
                 <<"DA", "BRDA">>, H("normalize_hit_count"))
        ELSE IF args.add_missing_brda_entries
        THEN install_handler(s, <<"DA">>, H("missing_brda")) ELSE s)

TransformStream_categories(args, s) ==
    TransformStream_entries(args,
        IF args.add_two_way_toggles
        THEN install_category_handler(
                 IF args.set_block_ids
                 THEN install_category_handler(s, <<"BRDA">>, H("block_ids")) ELSE s,
                 <<"BRDA">>, H("two_way_toggle"))
        ELSE IF args.set_block_ids
        THEN install_category_handler(s, <<"BRDA">>, H("block_ids")) ELSE s)

\* the Stream of main, lines 125-154
TransformStream(args) ==
    TransformStream_categories(args,
        InstallAll(
            InstallAll(
                InstallAll(
                    IF args.normalize_paths
                    THEN install_handler(Stream("SF"), <<"SF">>, H("normalize_path"))
                    ELSE Stream("SF"),
                    "path_strip", args.strip_file_prefix, 1),
                "filter", args.filter, 1),
            "filter_out", args.filter_out, 1))

NoArgs ==
    [normalize_paths |-> FALSE, strip_file_prefix |-> <<>>, filter |-> <<>>,
     filter_out |-> <<>>, set_block_ids |-> FALSE, add_two_way_toggles |-> FALSE,
     add_missing_brda_entries |-> FALSE, normalize_hit_counts |-> FALSE]

\* the command lines
TransformArgs ==
    { NoArgs,
      [NoArgs EXCEPT !.strip_file_prefix = <<"x/">>],
      [NoArgs EXCEPT !.normalize_paths = TRUE],
      [NoArgs EXCEPT !.normalize_paths = TRUE, !.strip_file_prefix = <<"x/">>,
                     !.filter_out = <<"g">>],
      [NoArgs EXCEPT !.add_missing_brda_entries = TRUE],
      [NoArgs EXCEPT !.add_missing_brda_entries = TRUE, !.normalize_hit_counts = TRUE],
      [NoArgs EXCEPT !.add_missing_brda_entries = TRUE, !.add_two_way_toggles = TRUE,
                     !.set_block_ids = TRUE, !.filter = <<"f">>],
      [NoArgs EXCEPT !.normalize_hit_counts = TRUE] }

TransformInputs ==
    { \* paths that differ only by what the SF handlers remove
      <<TnLine("a")>> \o Block("x/f", <<DA(1, 1)>>) \o Block("f", <<DA(2, 1)>>),
      <<TnLine("a")>> \o Block("./f", <<DA(1, 1)>>) \o Block("d/../f", <<DA(2, 0)>>),
      <<TnLine("a")>> \o Block("x/g", <<DA(1, 2)>>) \o Block("/x//f/", <<DA(1, 0)>>),
      \* one path twice
      <<TnLine("a")>> \o Block("f", <<DA(1, 1)>>) \o Block("f", <<DA(2, 0)>>),
      <<TnLine("a")>> \o Block("f", <<DA(1, 2), DA(2, 0), BRDA(2, 0, "a", 1)>>)
                      \o Block("f", <<DA(1, 1), DA(2, 5)>>),
      \* DA lines with a BRDA entry before them, after them, or without one
      <<TnLine("a")>> \o Block("f", <<DA(1, 2), BRDA(1, 0, "a", 1), DA(2, 3), DA(2, 1)>>),
      <<TnLine("a")>> \o Block("f", <<BRDA(1, 0, "a", 0), BRDA(1, 1, "b", 2), DA(1, 1), DA(3, 0),
                                      BRDA(2, 0, "a", 1)>>),
      <<TnLine("b")>> \o Block("g", <<DA(1, 0), DA(2, 2), BRDA(2, 0, "a", 0)>>),
      \* entries with a field too many or too few
      <<TnLine("a")>> \o Block("f", <<DA(1, 1), EntryLine("DA", <<2, 1, 3>>)>>),
      <<TnLine("a")>> \o Block("f", <<EntryLine("BRDA", <<1, 0, 5>>), DA(1, 1)>>),
      <<TnLine("a")>> \o Block("f", <<EntryLine("BRDA", <<1, 0, 2, 3, 5>>)>>) }

TransformInit ==
    /\ pc = "ready"
    /\ stream \in {TransformStream(args) : args \in TransformArgs}
    /\ base = Stream("SF")
    /\ inputs = <<>>
    /\ out = <<>>
    /\ exc = NoExc
    /\ snap = Stream("SF")
    /\ labels = <<>>
    /\ test_list = <<>>

\* main, lines 156-157: stream.load(f)
TransformLoad(text) ==
    /\ pc = "ready"
    /\ \E r \in {load(stream, text)} :
          /\ stream' = r.stream
          /\ exc' = r.exc
    /\ inputs' = <<text>>
    /\ pc' = "loaded"
    /\ UNCHANGED <<base, out, snap, labels, test_list>>

\* main, lines 159-160: stream.save(f)
TransformSave ==
    /\ pc = "loaded"
    /\ exc = NoExc
    /\ \E r \in {StreamStr(stream)} :
          /\ stream' = r.stream
          /\ exc' = r.exc
          /\ out' = IF r.exc = NoExc THEN r.text ELSE <<>>
    /\ pc' = "saved"
    /\ UNCHANGED <<base, inputs, snap, labels, test_list>>

TransformNext ==
    \/ \E text \in TransformInputs : TransformLoad(text)
    \/ TransformSave

SpecTransform == TransformInit /\ [][TransformNext]_vars

-----------------------------------------------------------------------------
(* Claims about transform, checked under SpecTransform *)

\* the SF payloads of the record blocks of a saved text, in order
SavedPaths(text) ==
    [i \in DOMAIN BlocksOf(text, <<>>) |-> BlockSource(BlocksOf(text, <<>>)[i])]

\* C21: after a load with entry handlers on SF, the Stream holds one Record
\* per stored source-file path, so that the saved output never has two record
\* blocks with the same SF path
C21_OneRecordPerStoredPath ==
    pc = "saved" =>
        \A i, j \in DOMAIN SavedPaths(out) :
            SavedPaths(out)[i] = SavedPaths(out)[j] => i = j

\* a DA entry without exactly two fields or a BRDA entry without exactly four
Malformed(l) ==
    /\ l.k = "entry"
    /\ \/ l.p = "DA" /\ Len(l.d) # 2
       \/ l.p = "BRDA" /\ Len(l.d) # 4

\* C22: the load of a text with a DA entry that has not exactly the two
\* fields line,hits, or a BRDA entry that has not exactly four fields, ends
\* with an error, and no such entry is in a saved output
C22_MalformedEntryIsAnError ==
    /\ (pc = "loaded" /\ \E i \in DOMAIN inputs[1] : Malformed(inputs[1][i])) => exc # NoExc
    /\ \A i \in DOMAIN out : ~Malformed(out[i])

\* the line numbers of the DA and BRDA entries of a text
CoverageLines(text) ==
    {text[i].d[1] : i \in {j \in DOMAIN text : text[j].p \in {"DA", "BRDA"}}}

\* the block has a raw entry of prefix for the line
RawEntryFor(block, prefix, line) ==
    \E i \in DOMAIN block : block[i].p = prefix /\ block[i].d[1] = line

\* the entries that missing_brda_handler added to the record for the line
Synthetic(rec, line) ==
    SelectSeq(Get(rec.lines_per_prefix, "BRDA", <<>>),
              LAMBDA e : Len(e) = 4 /\ e[1] = line /\ e[3] = "toggle")

\* the blocks of the text read into the record of source_file
BlocksFor(text, source_file) ==
    SelectSeq(BlocksOf(text, <<>>), LAMBDA b : BlockSource(b) = source_file)

\* C23: when the entry handlers of a block run, has_entry_for_line already
\* holds for every line with a raw DA or BRDA entry anywhere in the block;
\* so missing_brda_handler adds one BRDA entry for a DA line of a block if
\* and only if the block has no raw BRDA entry for that line, and never two
C23_MissingBRDAAddedOncePerBareLine ==
    (/\ pc = "loaded" /\ exc = NoExc
     /\ "DA" \in DOMAIN stream.handlers
     /\ stream.handlers["DA"][1] = H("missing_brda")) =>
        \A r \in DOMAIN stream.records :
            LET rec == stream.records[r]
                blocks == BlocksFor(inputs[1], rec.source_file)
            IN /\ \A i \in DOMAIN blocks[1] :
                      blocks[1][i].p \in {"DA", "BRDA"} =>
                          has_entry_for_line(rec, blocks[1][i].p, blocks[1][i].d[1])
               /\ \A line \in CoverageLines(inputs[1]) :
                      Len(Synthetic(rec, line)) =
                          Cardinality({b \in DOMAIN blocks :
                                          /\ RawEntryFor(blocks[b], "DA", line)
                                          /\ ~RawEntryFor(blocks[b], "BRDA", line)})

\* a block with a BRDA entry after the DA entry of its line and with two DA
\* entries for a line without BRDA entry has been loaded
C23_Witness ==
    /\ pc = "loaded" /\ exc = NoExc
    /\ "DA" \in DOMAIN stream.handlers
    /\ stream.handlers["DA"][1] = H("missing_brda")
    /\ Len(stream.records) = 1
    /\ \E i, j \in DOMAIN inputs[1] :
          /\ i < j
          /\ inputs[1][i].p = "DA" /\ inputs[1][j].p = "BRDA"
          /\ inputs[1][i].d[1] = inputs[1][j].d[1]
          /\ Synthetic(stream.records[1], inputs[1][i].d[1]) = <<>>
    /\ \E i, j \in DOMAIN inputs[1] :
          /\ i < j
          /\ inputs[1][i].p = "DA" /\ inputs[1][j].p = "DA"
          /\ inputs[1][i].d[1] = inputs[1][j].d[1]
          /\ Len(Synthetic(stream.records[1], inputs[1][i].d[1])) = 1

-----------------------------------------------------------------------------
(* merge.py strip_test_name_simple and strip_test_name_regex: the test name *)
(* of an input of merge, made from its path.  Strings are the values; the   *)
(* patterns of the regex mode are those made of literal characters, `.`,    *)
(* groups without nesting and `|` outside groups.                           *)

RECURSIVE str_replace_first(_, _, _, _)
str_replace_first(s, old, new, i) ==
    IF old = "" THEN new \o s
    ELSE IF i > Len(s) THEN ""
    ELSE IF i + Len(old) - 1 <= Len(s) /\ SubSeq(s, i, i + Len(old) - 1) = old
    THEN new \o SubSeq(s, i + Len(old), Len(s))
    ELSE Char(s, i) \o str_replace_first(s, old, new, i + 1)

RECURSIVE str_replace(_, _, _, _)
\* s[i..].replace(old, new); the definition above is the faulty variant that
\* replaces the first occurrence only
str_replace(s, old, new, i) ==
    IF old = ""
    THEN new \o (IF i > Len(s) THEN "" ELSE Char(s, i) \o str_replace(s, old, new, i + 1))
    ELSE IF i > Len(s) THEN ""
    ELSE IF i + Len(old) - 1 <= Len(s) /\ SubSeq(s, i, i + Len(old) - 1) = old
    THEN new \o str_replace(s, old, new, i + Len(old))
    ELSE Char(s, i) \o str_replace(s, old, new, i + 1)

RECURSIVE ReplaceEach(_, _, _)
\* the loop of strip_test_name_simple over strings[i..]
ReplaceEach(test_name, strings, i) ==
    IF i > Len(strings) THEN test_name
    ELSE ReplaceEach(str_replace(test_name, strings[i], "", 1), strings, i + 1)

\* merge.py strip_test_name_simple
strip_test_name_simple(test_name, pattern) ==
    ReplaceEach(test_name, str_split(pattern, ",", 1, "", <<>>), 1)

\* re.compile(pattern): the alternatives of the pattern, each with its
\* elements (one per character it consumes) and the spans of its groups as
\* offsets into the elements, and the number of groups of the pattern
NoGroup == [n |-> 0, from |-> 0]

RECURSIVE re_compile(_, _, _, _, _, _, _)
re_compile(pattern, i, ngroups, open, elems, groups, alts) ==
    IF i > Len(pattern)
    THEN [alts |-> Append(alts, [elems |-> elems, groups |-> groups]), ngroups |-> ngroups]
    ELSE CASE Char(pattern, i) = "|" ->
                re_compile(pattern, i + 1, ngroups, NoGroup, <<>>, <<>>,
                           Append(alts, [elems |-> elems, groups |-> groups]))
           [] Char(pattern, i) = "(" ->
                re_compile(pattern, i + 1, ngroups + 1,
                           [n |-> ngroups + 1, from |-> Len(elems)], elems, groups, alts)
           [] Char(pattern, i) = ")" ->
                re_compile(pattern, i + 1, ngroups, NoGroup, elems,
                           Append(groups, [n |-> open.n, from |-> open.from, to |-> Len(elems)]),
                           alts)
           [] OTHER ->
                re_compile(pattern, i + 1, ngroups, open,
                           Append(elems, Char(pattern, i)), groups, alts)

\* the alternative matches the string at position p
MatchesAt(alt, string, p) ==
    /\ p + Len(alt.elems) - 1 <= Len(string)
    /\ \A k \in DOMAIN alt.elems :
          alt.elems[k] = "." \/ alt.elems[k] = Char(string, p + k - 1)

\* the first alternative that matches at p, 0 for none
FirstMatchAt(regex, string, p) ==
    IF \E a \in DOMAIN regex.alts : MatchesAt(regex.alts[a], string, p)
    THEN CHOOSE a \in DOMAIN regex.alts :
            /\ MatchesAt(regex.alts[a], string, p)
            /\ \A b \in 1..(a - 1) : ~MatchesAt(regex.alts[b], string, p)
    ELSE 0

\* the span of group n in the alternative
GroupSpan(alt, n) ==
    alt.groups[CHOOSE g \in DOMAIN alt.groups : alt.groups[g].n = n]

\* match.groups(): per group of the pattern, whether it took part in the
\* match at p and the text it matched
MatchGroups(regex, alt, string, p) ==
    [n \in 1..regex.ngroups |->
        IF \E g \in DOMAIN alt.groups : alt.groups[g].n = n
        THEN [some |-> TRUE,
              text |-> SubSeq(string, p + GroupSpan(alt, n).from, p + GroupSpan(alt, n).to - 1)]
        ELSE [some |-> FALSE, text |-> ""]]

RECURSIVE ReplaceGroups(_, _, _)
\* repl, lines 125-128: `for g in groups: if g is not None: out = out.replace(g, "")`
ReplaceGroups(out_text, groups, n) ==
    IF n > Len(groups) THEN out_text
    ELSE ReplaceGroups(IF groups[n].some THEN str_replace(out_text, groups[n].text, "", 1)
                       ELSE out_text,
                       groups, n + 1)

\* strip_test_name_regex.repl; any(groups) holds for a group with a text
\* that is not empty
repl(match_text, groups) ==
    IF ~\E n \in DOMAIN groups : groups[n].some /\ groups[n].text # ""
    THEN ""
    ELSE ReplaceGroups(match_text, groups, 1)

RECURSIVE regex_sub(_, _, _)
RECURSIVE regex_sub_then(_, _, _, _)
\* regex.sub(repl, string) from position p on: the leftmost match, then the
\* next one after its end
regex_sub(regex, string, p) ==
    IF p > Len(string) THEN ""
    ELSE regex_sub_then(regex, string, p, FirstMatchAt(regex, string, p))

regex_sub_then(regex, string, p, a) ==
    IF a = 0 THEN Char(string, p) \o regex_sub(regex, string, p + 1)
    ELSE repl(SubSeq(string, p, p + Len(regex.alts[a].elems) - 1),
              MatchGroups(regex, regex.alts[a], string, p))
         \o regex_sub(regex, string, p + Len(regex.alts[a].elems))

\* merge.py strip_test_name_regex
strip_test_name_regex(test_name, pattern) ==
    regex_sub(re_compile(pattern, 1, 0, NoGroup, <<>>, <<>>, <<>>), test_name, 1)

\* the paths of the inputs and the values of --test-list-strip
StripNames ==
    { "aaabbb", "a_b_c_d_e", "./unique_123_reg.info", "./folder/some_file_name.info",
      "a_a.info", "ab_ab", "x/a1_a1.info", "aabb", "t.info.info", "b_a_ab" }

StripPatterns ==
    { ".info", "ab", "_._", ".info|_(123_)", ".info,./folder/", "(a)_a", "a()_",
      "_(a)b|(a)", ",a", "aa,b", "_(a1)|(b)b" }

StripInit ==
    /\ pc = "ready"
    /\ inputs \in {<<test_name, pattern>> : test_name \in StripNames, pattern \in StripPatterns}
    /\ stream = Stream("SF")
    /\ base = Stream("SF")
    /\ out = <<>>
    /\ exc = NoExc
    /\ snap = Stream("SF")
    /\ labels = <<>>
    /\ test_list = <<>>

\* merge.py main, line 208, with --test-list-strip-mode simple
StripSimple ==
    /\ pc = "ready"
    /\ labels' = <<strip_test_name_simple(inputs[1], inputs[2])>>
    /\ pc' = "simple"
    /\ UNCHANGED <<stream, base, inputs, out, exc, snap, test_list>>

\* merge.py main, line 208, with --test-list-strip-mode regex
StripRegex ==
    /\ pc = "ready"
    /\ labels' = <<strip_test_name_regex(inputs[1], inputs[2])>>
    /\ pc' = "regex"
    /\ UNCHANGED <<stream, base, inputs, out, exc, snap, test_list>>

StripNext ==
    \/ StripSimple
    \/ StripRegex

SpecStrip == StripInit /\ [][StripNext]_vars

-----------------------------------------------------------------------------
(* Claims about the test names, checked under SpecStrip *)

RECURSIVE Concat(_)
Concat(strings) == IF strings = <<>> THEN "" ELSE Head(strings) \o Concat(Tail(strings))

\* the text of a match of the alternative at p without the characters that
\* its groups matched
OutsideGroups(alt, string, p) ==
    Concat([k \in DOMAIN alt.elems |->
               IF \E g \in DOMAIN alt.groups : alt.groups[g].from < k /\ k <= alt.groups[g].to
               THEN "" ELSE Char(string, p + k - 1)])

RECURSIVE WithoutGroupTexts(_, _, _)
\* the string with, for each of the leftmost matches that do not overlap,
\* the whole match removed if it has no group and the texts of its groups
\* removed otherwise
WithoutGroupTexts(regex, string, p) ==
    IF p > Len(string) THEN ""
    ELSE LET a == FirstMatchAt(regex, string, p)
         IN IF a = 0 THEN Char(string, p) \o WithoutGroupTexts(regex, string, p + 1)
            ELSE (IF regex.alts[a].groups = <<>> THEN ""
                  ELSE OutsideGroups(regex.alts[a], string, p))
                 \o WithoutGroupTexts(regex, string, p + Len(regex.alts[a].elems))

\* C24: strip_test_name_regex removes each leftmost match that does not
\* overlap an earlier one: all of it if none of its groups took part, and
\* otherwise the text matched by its groups and nothing else
C24_RegexRemovesGroupTextOnly ==
    pc = "regex" =>
        labels[1] = WithoutGroupTexts(re_compile(inputs[2], 1, 0, NoGroup, <<>>, <<>>, <<>>),
                                      inputs[1], 1)

\* the positions at which the literal occurs in the name
Occurrences(name, literal) ==
    {q \in 1..(Len(name) - Len(literal) + 1) : SubSeq(name, q, q + Len(literal) - 1) = literal}

\* the occurrences that are removed: each one that no removed occurrence
\* before it overlaps
RemovedOccurrences(name, literal) ==
    CHOOSE S \in SUBSET Occurrences(name, literal) :
        \A q \in Occurrences(name, literal) :
            q \in S <=> ~\E r \in S : r < q /\ q < r + Len(literal)

\* the name without the occurrences of the literal
WithoutLiteral(name, literal) ==
    IF literal = "" THEN name
    ELSE Concat([k \in 1..Len(name) |->
                    IF \E r \in RemovedOccurrences(name, literal) : r <= k /\ k < r + Len(literal)
                    THEN "" ELSE Char(name, k)])

RECURSIVE WithoutLiterals(_, _, _)
WithoutLiterals(name, literals, i) ==
    IF i > Len(literals) THEN name
    ELSE WithoutLiterals(WithoutLiteral(name, literals[i]), literals, i + 1)

\* C25: strip_test_name_simple returns the name without the occurrences of
\* the comma-separated literals of the pattern, the literals taken in the
\* order of the pattern and each removed from what the one before it left
C25_SimpleRemovesLiteralsInOrder ==
    pc = "simple" =>
        labels[1] = WithoutLiterals(inputs[1], str_split(inputs[2], ",", 1, "", <<>>), 1)

\* two literals have been removed from a name
C25_Witness ==
    /\ pc = "simple"
    /\ inputs = <<"./folder/some_file_name.info", ".info,./folder/">>
    /\ labels = <<"some_file_name">>

-----------------------------------------------------------------------------
(* Further claims about diffing, checked under SpecDiff *)

\* the diff holds the entry of `other`, as it was or with its hit count
\* replaced by the covered flag
KeptInDiff(i, prefix, entry) ==
    \/ entry \in Range(ListOf(stream.records[i], prefix))
    \/ Flagged(entry) \in Range(ListOf(stream.records[i], prefix))

\* C26: when a source file is in both streams and the base Record has no
\* entries at all for DA (BRDA) while `other` has some, every DA (BRDA) entry
\* of `other` is kept in the diff
C26_EntriesKeptWhenBaseLacksPrefix ==
    Diffed =>
        \A i \in DOMAIN snap.records : \A prefix \in {"DA", "BRDA"} :
            ( /\ BaseOf(i) > 0
              /\ prefix \notin DOMAIN base.records[BaseOf(i)].lines_per_prefix )
            => \A entry \in Range(ListOf(snap.records[i], prefix)) : KeptInDiff(i, prefix, entry)

\* the BRDA entry of `other` is new or changed: base has no entry with its
\* line and name, or one in the other covered state
BranchChanged(base_entries, entry) ==
    \A old \in Range(base_entries) :
        (old[1] = entry[1] /\ old[3] = entry[3]) => Covered(old) # Covered(entry)

\* C27: when base and `other` both have BRDA entries for a source file,
\* every BRDA entry of `other` whose line and name base lacks, or whose
\* covered state differs from that of base's entry with the same line and
\* name, is in the diff, also when several entries share a line
C27_NoChangedBranchLost ==
    Diffed =>
        \A i \in DOMAIN snap.records :
            ( /\ BaseOf(i) > 0
              /\ "BRDA" \in DOMAIN base.records[BaseOf(i)].lines_per_prefix )
            => \A entry \in Range(ListOf(snap.records[i], "BRDA")) :
                   BranchChanged(ListOf(base.records[BaseOf(i)], "BRDA"), entry)
                       => KeptInDiff(i, "BRDA", entry)

-----------------------------------------------------------------------------
(* A merge-configured Stream used for several rounds (parser.py             *)
(* Stream.merge and Stream.save with the handlers of merge.py main): texts  *)
(* are merged, the Stream is saved, and further texts are merged.           *)

RemergeInputs ==
    { <<TnLine("t")>> \o Block("f", <<DA(2, 1), DA(1, 1)>>),
      <<TnLine("t")>> \o Block("f", <<DA(2, 5)>>),
      <<TnLine("t")>> \o Block("f", <<DA(1, 1), DA(2, 1), BRDA(1, 0, "a", 1)>>),
      <<TnLine("t")>> \o Block("f", <<BRDA(2, 0, "a", 1), BRDA(1, 0, "a", 1), BRDA(1, 0, "b", 0)>>),
      <<TnLine("t")>> \o Block("g", <<BRDA(1, 1, "b", 2), BRDA(1, 0, "a", 1), DA(3, 0)>>)
                      \o Block("f", <<DA(3, 1), BRDA(2, 1, "a", 2)>>),
      <<TnLine("t")>> \o Block("g", <<DA(3, 2), DA(1, 0), BRDA(1, 0, "a", 0)>>) }

\* Stream.merge
Remerge(text) ==
    /\ pc \in {"merging", "saved"}
    /\ exc = NoExc
    /\ Len(inputs) < MaxMerges + 1
    /\ \E r \in {merge(stream, text, None)} :
          /\ stream' = r.stream
          /\ exc' = r.exc
    /\ inputs' = Append(inputs, text)
    /\ snap' = stream
    /\ pc' = "merging"
    /\ UNCHANGED <<base, out, labels, test_list>>

\* Stream.save
RemergeSave ==
    /\ pc = "merging"
    /\ exc = NoExc
    /\ Len(inputs) >= 1
    /\ \E r \in {StreamStr(stream)} :
          /\ stream' = r.stream
          /\ exc' = r.exc
          /\ out' = IF r.exc = NoExc THEN r.text ELSE <<>>
    /\ snap' = stream
    /\ pc' = "saved"
    /\ UNCHANGED <<base, inputs, labels, test_list>>

RemergeNext ==
    \/ \E text \in RemergeInputs : Remerge(text)
    \/ RemergeSave

SpecRemerge == MergeInit /\ [][RemergeNext]_vars

\* the cached position of every key of the DA (BRDA) handler holds the
\* stored entry with that line (line and name)
CachedPositionsRight ==
    \A r \in DOMAIN stream.records :
        /\ \A key \in DOMAIN stream.cache_da :
              key[1] = stream.records[r].id =>
                  /\ stream.cache_da[key] < Len(ListOf(stream.records[r], "DA"))
                  /\ ListOf(stream.records[r], "DA")[stream.cache_da[key] + 1][1] = key[2]
        /\ \A key \in DOMAIN stream.cache_brda :
              key[1] = stream.records[r].id =>
                  /\ stream.cache_brda[key] < Len(ListOf(stream.records[r], "BRDA"))
                  /\ ListOf(stream.records[r], "BRDA")[stream.cache_brda[key] + 1][1] = key[2]
                  /\ ListOf(stream.records[r], "BRDA")[stream.cache_brda[key] + 1][3] = key[3]

\* C28: in any interleaving of merges and saves on a merge-configured
\* Stream the position cached for a key designates the stored entry with
\* that key, a merge after a save never fails on the handler's assertion,
\* and the Stream holds one DA entry per line with the summed hit count
C28_CachedPositionsSurviveSave ==
    /\ exc = NoExc => CachedPositionsRight
    /\ exc \notin {"AssertionError", "IndexError"}
    /\ C1_DAOnePerLineWithSummedHits

-----------------------------------------------------------------------------
(* Claims about the waivers, checked under SpecWaive *)

\* the waiver rows of the Stream for the file
RowsFor(source_file) == Get(stream.waivers, source_file, <<>>)

RowMatchesLine(row, line) ==
    \/ row.line_start = 0 /\ row.line_end = 0
    \/ row.line_start <= line /\ line <= row.line_end

RowMatchesGroup(row, block) ==
    \/ row.group_start = 0 /\ row.group_end = 0
    \/ row.group_start <= block /\ block <= row.group_end

\* the entry of prefix is waived for the file
Waived(source_file, prefix, entry) ==
    \E i \in DOMAIN RowsFor(source_file) :
        /\ RowMatchesLine(RowsFor(source_file)[i], entry[1])
        /\ prefix = "BRDA" => RowMatchesGroup(RowsFor(source_file)[i], entry[2])

\* the payloads of prefix in a block of text
PayloadsOf(block, prefix) ==
    [i \in DOMAIN SelectSeq(block, LAMBDA l : l.p = prefix) |->
        SelectSeq(block, LAMBDA l : l.p = prefix)[i].d]

\* C29: the waiver handler removes a DA entry iff a waiver row of the
\* Record's file covers its line (whole file or line range), and a BRDA
\* entry iff a row covers its line and its block (whole line or group
\* range); the other entries stay in their order, and the entries of a file
\* without rows are all kept
C29_WaivedEntriesRemovedOthersKept ==
    (pc = "saved" /\ exc = NoExc) =>
        /\ Len(BlocksOf(out, <<>>)) = Len(snap.records)
        /\ \A i \in DOMAIN snap.records : \A prefix \in {"DA", "BRDA"} :
              /\ PayloadsOf(BlocksOf(out, <<>>)[i], prefix)
                   = SelectSeq(ListOf(snap.records[i], prefix),
                               LAMBDA e : ~Waived(snap.records[i].source_file, prefix, e))
              /\ RowsFor(snap.records[i].source_file) = <<>> =>
                     PayloadsOf(BlocksOf(out, <<>>)[i], prefix) = ListOf(snap.records[i], prefix)

\* a save that removed a DA entry and the BRDA entry of one block of a
\* line, and kept a BRDA entry of another block of the same line
C29_Witness ==
    /\ pc = "saved" /\ exc = NoExc
    /\ \E i \in DOMAIN snap.records :
          /\ Len(PayloadsOf(BlocksOf(out, <<>>)[i], "DA")) < Len(ListOf(snap.records[i], "DA"))
          /\ PayloadsOf(BlocksOf(out, <<>>)[i], "DA") # <<>>
          /\ \E e, f \in Range(ListOf(snap.records[i], "BRDA")) :
                /\ e[1] = f[1]
                /\ e \in Range(PayloadsOf(BlocksOf(out, <<>>)[i], "BRDA"))
                /\ f \notin Range(PayloadsOf(BlocksOf(out, <<>>)[i], "BRDA"))

-----------------------------------------------------------------------------
(* compare.py: CoverageCompare, compare_records and report_changes *)

\* None in a field of a CoverageCompare (Optional[int])
Unset == -1

CoverageCompare(file_name, base_total, other_total, base_hits, other_hits) ==
    [file_name |-> file_name, base_total |-> base_total, other_total |-> other_total,
     base_hits |-> base_hits, other_hits |-> other_hits]

\* CoverageCompare.present_in_base and present_in_other, and their assertions
present_in_base(c) == ~(c.base_total = Unset \/ c.base_hits = Unset)
present_in_base_raises(c) ==
    (c.base_total = Unset \/ c.base_hits = Unset) /\ ~(c.base_total = Unset /\ c.base_hits = Unset)

present_in_other(c) == ~(c.other_total = Unset \/ c.other_hits = Unset)
present_in_other_raises(c) ==
    (c.other_total = Unset \/ c.other_hits = Unset)
        /\ ~(c.other_total = Unset /\ c.other_hits = Unset)

present_in_both(c) == present_in_base(c) /\ present_in_other(c)

\* CoverageCompare.total_delta and hits_delta, for a comparison present in both
total_delta(c) == c.other_total - c.base_total
hits_delta(c) == c.other_hits - c.base_hits

\* CoverageCompare.is_different: [val, exc]; the first definition is the
\* faulty variant that compares the totals only
is_different_totals(c) ==
    IF present_in_base_raises(c) \/ (present_in_base(c) /\ present_in_other_raises(c))
           \/ ~present_in_both(c)
    THEN [val |-> FALSE, exc |-> "AssertionError"]
    ELSE [val |-> total_delta(c) # 0, exc |-> NoExc]

is_different(c) ==
    IF present_in_base_raises(c) \/ (present_in_base(c) /\ present_in_other_raises(c))
           \/ ~present_in_both(c)
    THEN [val |-> FALSE, exc |-> "AssertionError"]
    ELSE [val |-> total_delta(c) # 0 \/ hits_delta(c) # 0, exc |-> NoExc]

\* compare_records.get_entries_per_record for one Record: the BRDA entries,
\* then the DA entries of the lines without BRDA entry
EntriesOfRecord(record) ==
    Get(record.lines_per_prefix, "BRDA", <<>>)
        \o SelectSeq(Get(record.lines_per_prefix, "DA", <<>>),
                     LAMBDA da : \A i \in DOMAIN Get(record.lines_per_prefix, "BRDA", <<>>) :
                                    Get(record.lines_per_prefix, "BRDA", <<>>)[i][1] # da[1])

\* the assertion of get_entries_per_record: two of the DA entries taken are
\* for one line
MultipleDALines(record) ==
    \E i, j \in DOMAIN EntriesOfRecord(record) :
        /\ i < j
        /\ i > Len(Get(record.lines_per_prefix, "BRDA", <<>>))
        /\ EntriesOfRecord(record)[i][1] = EntriesOfRecord(record)[j][1]

\* get_entries_per_record: the items of the result dict, in order
get_entries_per_record(records) ==
    IF \E i \in DOMAIN records : MultipleDALines(records[i])
    THEN Fail("AssertionError")
    ELSE Data([i \in DOMAIN records |->
                  [file_name |-> records[i].source_file, entries |-> EntriesOfRecord(records[i])]])

\* the Records after get_entries_per_record: `entries` is the stored BRDA
\* list when the Record has one, and the DA entries are appended to it
RecordsAfterCompare(records) ==
    [i \in DOMAIN records |->
        IF "BRDA" \in DOMAIN records[i].lines_per_prefix
        THEN [records[i] EXCEPT !.lines_per_prefix["BRDA"] = EntriesOfRecord(records[i])]
        ELSE records[i]]

\* compare_records.all_and_covered_lines_count
all_and_covered_lines_count(dataset) ==
    [total |-> Len(dataset),
     hits |-> Cardinality({i \in DOMAIN dataset : dataset[i][Len(dataset[i])] > 0})]

\* this_records_lines.pop(file_name, None): the entries, <<>> for None
LinesOf(items, file_name) ==
    IF \E i \in DOMAIN items : items[i].file_name = file_name
    THEN items[CHOOSE i \in DOMAIN items : items[i].file_name = file_name].entries
    ELSE <<>>

\* compare_records, lines 178-191: the CoverageCompare objects before sorting
CompareItems(this_lines, other_lines) ==
    [i \in DOMAIN other_lines |->
        CoverageCompare(
            other_lines[i].file_name,
            IF LinesOf(this_lines, other_lines[i].file_name) # <<>>
            THEN all_and_covered_lines_count(LinesOf(this_lines, other_lines[i].file_name)).total
            ELSE Unset,
            all_and_covered_lines_count(other_lines[i].entries).total,
            IF LinesOf(this_lines, other_lines[i].file_name) # <<>>
            THEN all_and_covered_lines_count(LinesOf(this_lines, other_lines[i].file_name)).hits
            ELSE Unset,
            all_and_covered_lines_count(other_lines[i].entries).hits)]
    \o
    [i \in DOMAIN SelectSeq(this_lines,
                            LAMBDA t : \A j \in DOMAIN other_lines :
                                           other_lines[j].file_name # t.file_name) |->
        CoverageCompare(
            SelectSeq(this_lines,
                      LAMBDA t : \A j \in DOMAIN other_lines :
                                     other_lines[j].file_name # t.file_name)[i].file_name,
            all_and_covered_lines_count(
                SelectSeq(this_lines,
                          LAMBDA t : \A j \in DOMAIN other_lines :
                                         other_lines[j].file_name # t.file_name)[i].entries).total,
            Unset,
            all_and_covered_lines_count(
                SelectSeq(this_lines,
                          LAMBDA t : \A j \in DOMAIN other_lines :
                                         other_lines[j].file_name # t.file_name)[i].entries).hits,
            Unset)]

\* sorted(result): CoverageCompare.__lt__ compares the file names
SortedByFileName(result) ==
    StableSort(result,
               [i \in DOMAIN result |->
                   StrKey(result[i].file_name[1],
                          MaxLen([j \in DOMAIN result |-> result[j].file_name[1]]))])

compare_records_then(this_lines, other_lines) ==
    IF this_lines.exc # NoExc THEN this_lines
    ELSE IF other_lines.exc # NoExc THEN other_lines
    ELSE IF ~\E i \in DOMAIN this_lines.data, j \in DOMAIN other_lines.data :
                this_lines.data[i].file_name = other_lines.data[j].file_name
    THEN Fail("AssertionError")
    ELSE Data(SortedByFileName(CompareItems(this_lines.data, other_lines.data)))

\* compare.py compare_records: [data, exc]
compare_records(this_records, other_records) ==
    compare_records_then(get_entries_per_record(this_records),
                         get_entries_per_record(other_records))

\* compare.py prepare_table_data: the counts and deltas of the row; the
\* formatting of a value that is None raises TypeError
prepare_table_data(name, comparison) ==
    IF ~present_in_both(comparison) THEN Fail("TypeError")
    ELSE Data(<<[name |-> name,
                 other_hits |-> comparison.other_hits, hits_delta |-> hits_delta(comparison),
                 other_total |-> comparison.other_total,
                 total_delta |-> total_delta(comparison)]>>)

RECURSIVE ReportRows(_, _, _, _)
RECURSIVE ReportRows_printed(_, _, _, _, _)
RECURSIVE ReportRows_row(_, _, _, _, _)
\* the list comprehension of report_changes over comparison_data[i..]
ReportRows(comparison_data, print_all_data, i, data) ==
    IF i > Len(comparison_data) THEN Data(data)
    ELSE IF print_all_data
    THEN ReportRows_row(comparison_data, print_all_data, i, data,
                        prepare_table_data(comparison_data[i].file_name, comparison_data[i]))
    ELSE ReportRows_printed(comparison_data, print_all_data, i, data,
                            is_different(comparison_data[i]))

ReportRows_printed(comparison_data, print_all_data, i, data, different) ==
    IF different.exc # NoExc THEN Fail(different.exc)
    ELSE IF different.val
    THEN ReportRows_row(comparison_data, print_all_data, i, data,
                        prepare_table_data(comparison_data[i].file_name, comparison_data[i]))
    ELSE ReportRows(comparison_data, print_all_data, i + 1, data)

ReportRows_row(comparison_data, print_all_data, i, data, row) ==
    IF row.exc # NoExc THEN row
    ELSE ReportRows(comparison_data, print_all_data, i + 1, data \o row.data)

report_changes_then(print_all_data, comparison_data) ==
    IF comparison_data.exc # NoExc THEN comparison_data
    ELSE ReportRows(comparison_data.data, print_all_data, 1, <<>>)

\* compare.py report_changes: [data, exc], data being the rows printed
report_changes(stream_this, stream_other, print_all_data) ==
    report_changes_then(print_all_data,
                        compare_records(stream_this.records, stream_other.records))

\* compare.py main for two .info files: both are loaded (as `this` into
\* base, as `other` into stream) and report_changes prints the rows, kept
\* in out; snap is `other` as loaded
ReportChanges(print_all_data) ==
    /\ pc = "other"
    /\ exc = NoExc
    /\ \E r \in {report_changes(base, stream, print_all_data)} :
          /\ out' = r.data
          /\ exc' = r.exc
    /\ base' = [base EXCEPT !.records = RecordsAfterCompare(@)]
    /\ stream' = [stream EXCEPT !.records = RecordsAfterCompare(@)]
    /\ pc' = IF print_all_data THEN "reported_all" ELSE "reported"
    /\ UNCHANGED <<inputs, snap, labels, test_list>>

CompareNext ==
    \/ \E text \in DiffInputs : DiffLoadThis(text)
    \/ \E text \in DiffInputs : DiffLoadOther(text)
    \/ \E print_all_data \in BOOLEAN : ReportChanges(print_all_data)

SpecCompare == DiffInit /\ [][CompareNext]_vars

\* the two loaded Streams have a source file in common
ShareSourceFile ==
    \E i \in DOMAIN base.records, j \in DOMAIN stream.records :
        base.records[i].source_file = stream.records[j].source_file

\* the comparisons report_changes went through
Comparisons == compare_records(base.records, stream.records)

\* file_name is the source file of a Record of the Stream
InStream(s, file_name) == \E i \in DOMAIN s.records : s.records[i].source_file = file_name

\* C30: for two loaded Streams with a source file in common, report_changes
\* without --output-all completes without an assertion of CoverageCompare
\* failing, also when a source file is in one of the Streams only, and such
\* a file has the total and the hits of the missing side unset.  (No input
\* of SpecCompare has two DA entries for one line, so that the assertion of
\* get_entries_per_record never fails there.)
C30_ReportCompletesForOneSidedFiles ==
    (pc = "reported" /\ ShareSourceFile) =>
        /\ exc = NoExc
        /\ \A i \in DOMAIN Comparisons.data :
              /\ ~InStream(base, Comparisons.data[i].file_name) =>
                     /\ Comparisons.data[i].base_total = Unset
                     /\ Comparisons.data[i].base_hits = Unset
              /\ ~InStream(stream, Comparisons.data[i].file_name) =>
                     /\ Comparisons.data[i].other_total = Unset
                     /\ Comparisons.data[i].other_hits = Unset

====
